---- MODULE Spec2Model ----
(***************************************************************************)
(* A model of the Terrapane JSON library (terrapane/libjson): the JSON     *)
(* value model, the non-recursive JSONParser and the JSONFormatter.        *)
(*                                                                         *)
(* Text is a sequence of octets (0..255).  A parser or formatter instance  *)
(* is a record holding the members of the C++ object (read position, line, *)
(* column, composite_context, ...) together with the locals of the call in *)
(* progress and an exception slot: every modelled function takes such a    *)
(* record and returns the record after the call, with the thrown exception *)
(* (if any) in .err and the returned value in .ret.                        *)
(***************************************************************************)
EXTENDS Integers, Sequences, FiniteSets

(***************************************************************************)
(* Octets of the character literals used by the sources.                   *)
(***************************************************************************)
Ord ==
    [c \in {"\"", "\\", "/", "[", "]", "{", "}", ":", ",", " ", "-", "+", ".",
            "0", "1", "2", "3", "4", "5", "6", "7", "8", "9",
            "a", "b", "c", "d", "e", "f", "l", "n", "r", "s", "t", "u", "x",
            "A", "B", "C", "D", "E", "F", "~",
            "\n", "\r", "\t", "<BS>", "<FF>"} |->
        CASE c = "\"" -> 34  [] c = "\\" -> 92  [] c = "/" -> 47
          [] c = "[" -> 91   [] c = "]" -> 93   [] c = "{" -> 123
          [] c = "}" -> 125  [] c = ":" -> 58   [] c = "," -> 44
          [] c = " " -> 32   [] c = "-" -> 45   [] c = "+" -> 43
          [] c = "." -> 46
          [] c = "0" -> 48   [] c = "1" -> 49   [] c = "2" -> 50
          [] c = "3" -> 51   [] c = "4" -> 52   [] c = "5" -> 53
          [] c = "6" -> 54   [] c = "7" -> 55   [] c = "8" -> 56
          [] c = "9" -> 57
          [] c = "a" -> 97   [] c = "b" -> 98   [] c = "c" -> 99
          [] c = "d" -> 100  [] c = "e" -> 101  [] c = "f" -> 102
          [] c = "l" -> 108  [] c = "n" -> 110  [] c = "r" -> 114
          [] c = "s" -> 115  [] c = "t" -> 116  [] c = "u" -> 117
          [] c = "x" -> 120
          [] c = "A" -> 65   [] c = "B" -> 66   [] c = "C" -> 67
          [] c = "D" -> 68   [] c = "E" -> 69   [] c = "F" -> 70
          [] c = "~" -> 126
          [] c = "\n" -> 10  [] c = "\r" -> 13  [] c = "\t" -> 9
          [] c = "<BS>" -> 8 [] c = "<FF>" -> 12]

\* The octets of a text written as a tuple of one-character strings.
T(s) == [i \in 1..Len(s) |-> Ord[s[i]]]

Max(a, b) == IF a >= b THEN a ELSE b

\* std::isdigit() in the "C" locale
IsDigit(c) == c >= Ord["0"] /\ c <= Ord["9"]

RECURSIVE Concat(_)
Concat(ss) == IF ss = <<>> THEN <<>> ELSE Head(ss) \o Concat(Tail(ss))

RECURSIVE Spaces(_)
Spaces(n) == IF n <= 0 THEN <<>> ELSE <<Ord[" "]>> \o Spaces(n - 1)

(***************************************************************************)
(* Exceptions.  The message of an exception is a tuple of its pieces, so   *)
(* that the formatting done by ParsingErrorString is visible.              *)
(***************************************************************************)
NoError == <<>>

ParsingErrorStringBare(line, column, text) == <<text>>
ParsingErrorString(line, column, text) ==
    <<"JSON parsing error at line ", line, ", column ", column, ": ", text>>

JSONException(text) == <<text>>


(***************************************************************************)
(* The value model (json.h).  A JSONValue is a record tagged by the active *)
(* alternative of the std::variant.                                        *)
(*   JSONString : the octets of the std::u8string                          *)
(*   JSONNumber : a JSONInteger (long long), held as sign and decimal      *)
(*                digits without leading zeros, or a JSONFloat (double),   *)
(*                held as sign, decimal digits without leading or trailing *)
(*                zeros and a power of ten (digits * 10^exp), or as one of *)
(*                the non-finite values.  The decimal form is exact for    *)
(*                the doubles of up to 15 significant digits used here.    *)
(*   JSONObject : std::map<std::u8string, JSON>, a function on its keys    *)
(*   JSONArray  : std::vector<JSON>, a sequence                            *)
(*   JSONLiteral: True, False or Null                                      *)
(***************************************************************************)
JSONString(octets) == [type |-> "String", str |-> octets]

JSONInteger(neg, digits) ==
    [type |-> "Number", isfloat |-> FALSE, fp |-> "finite",
     neg |-> neg, digits |-> digits, exp |-> 0]

JSONFloat(neg, digits, exp) ==
    [type |-> "Number", isfloat |-> TRUE, fp |-> "finite",
     neg |-> neg, digits |-> digits, exp |-> exp]

JSONFloatNonFinite(neg, fp) ==
    [type |-> "Number", isfloat |-> TRUE, fp |-> fp,
     neg |-> neg, digits |-> <<>>, exp |-> 0]

JSONLiteral(lit) == [type |-> "Literal", lit |-> lit]

JSONArray(items) == [type |-> "Array", items |-> items]

JSONObject(members) == [type |-> "Object", members |-> members]

EmptyMap == [k \in {} |-> 0]

\* JSONNumber() : the variant's first alternative, JSONInteger 0
DefaultNumber == JSONInteger(FALSE, <<0>>)

IsFloat(n) == n.isfloat
IsInteger(n) == ~IsFloat(n)

\* JSONObject::HasKey
HasKeyNever(object, key) == FALSE
HasKey(object, key) == key \in DOMAIN object.members

\* std::map::operator[] followed by an assignment
MapAssign(members, key, v) ==
    [k \in (DOMAIN members) \cup {key} |-> IF k = key THEN v ELSE members[k]]

NumberEqNumeric(a, b) ==
    /\ a.fp = "finite" /\ b.fp = "finite"
    /\ a.neg = b.neg /\ a.digits = b.digits /\ a.exp = b.exp

\* JSONNumber::operator==
NumberEq(a, b) ==
    IF IsInteger(a) /\ IsInteger(b)
    THEN a.neg = b.neg /\ a.digits = b.digits
    ELSE IF IsFloat(a) /\ IsFloat(b)
    THEN IF a.fp = "nan" \/ b.fp = "nan" THEN FALSE
         ELSE /\ a.fp = b.fp
              /\ a.neg = b.neg \/ (a.fp = "finite" /\ a.digits = <<>>)
              /\ a.digits = b.digits
              /\ a.exp = b.exp
    ELSE FALSE

\* JSON::operator== (type index first, then the alternative's operator==)
RECURSIVE JSONEq(_, _)
JSONEq(a, b) ==
    IF a.type # b.type THEN FALSE
    ELSE CASE a.type = "String" -> a.str = b.str
           [] a.type = "Number" -> NumberEq(a, b)
           [] a.type = "Object" ->
                /\ DOMAIN a.members = DOMAIN b.members
                /\ \A k \in DOMAIN a.members :
                       JSONEq(a.members[k], b.members[k])
           [] a.type = "Array" ->
                /\ Len(a.items) = Len(b.items)
                /\ \A i \in 1..Len(a.items) : JSONEq(a.items[i], b.items[i])
           [] a.type = "Literal" -> a.lit = b.lit

(***************************************************************************)
(* Decimal digit strings.                                                  *)
(***************************************************************************)
RECURSIVE StripLeadingZeros(_)
StripLeadingZeros(d) ==
    IF Len(d) > 0 /\ d[1] = 0 THEN StripLeadingZeros(Tail(d)) ELSE d

RECURSIVE TrailingZeros(_)
TrailingZeros(d) ==
    IF Len(d) > 0 /\ d[Len(d)] = 0
    THEN 1 + TrailingZeros(SubSeq(d, 1, Len(d) - 1))
    ELSE 0

\* d < e for digit strings of equal length
RECURSIVE DigitsLess(_, _)
DigitsLess(d, e) ==
    IF d = <<>> \/ e = <<>> THEN FALSE
    ELSE IF d[1] # e[1] THEN d[1] < e[1]
    ELSE DigitsLess(Tail(d), Tail(e))

\* the value of a short digit string
RECURSIVE DigitsToNat(_)
DigitsToNat(d) ==
    IF d = <<>> THEN 0 ELSE 10 * DigitsToNat(SubSeq(d, 1, Len(d) - 1)) + d[Len(d)]

RECURSIVE NatToDigits(_)
NatToDigits(n) ==
    IF n < 10 THEN <<n>> ELSE Append(NatToDigits(n \div 10), n % 10)

DigitChars(d) == [i \in 1..Len(d) |-> Ord["0"] + d[i]]

\* the longest prefix of s[i..] made of decimal digits, as digit values
RECURSIVE DigitRun(_, _)
DigitRun(s, i) ==
    IF i <= Len(s) /\ IsDigit(s[i])
    THEN <<s[i] - Ord["0"]>> \o DigitRun(s, i + 1)
    ELSE <<>>

\* std::numeric_limits<long long>::max() and the magnitude of min()
LLongMaxDigits == <<9,2,2,3,3,7,2,0,3,6,8,5,4,7,7,5,8,0,7>>
LLongMinDigits == <<9,2,2,3,3,7,2,0,3,6,8,5,4,7,7,5,8,0,8>>

\* the decimal digits of DBL_MAX (1.7976931348623157e308) and of the
\* smallest normal double (2.2250738585072014e-308)
DblMaxDigits == <<1,7,9,7,6,9,3,1,3,4,8,6,2,3,1,5,7>>
DblMinDigits == <<2,2,2,5,0,7,3,8,5,8,5,0,7,2,0,1,4>>
DblMaxExp10 == 308

\* d padded with zeros on the right to n digits
RECURSIVE PadRight(_, _)
PadRight(d, n) == IF Len(d) >= n THEN d ELSE PadRight(Append(d, 0), n)

(***************************************************************************)
(* std::stoll: optional sign, then the longest run of digits; it throws    *)
(* std::invalid_argument without a digit and std::out_of_range when the    *)
(* value does not fit a long long.                                         *)
(***************************************************************************)
stoll(number) ==
    LET Range(neg, run, mag, limit) ==
            IF run = <<>> THEN [ok |-> FALSE, what |-> "stoll"]
            ELSE IF Len(mag) > Len(limit)
                    \/ (Len(mag) = Len(limit) /\ DigitsLess(limit, mag))
            THEN [ok |-> FALSE, what |-> "stoll"]
            ELSE IF mag = <<>>
            THEN [ok |-> TRUE, neg |-> FALSE, digits |-> <<0>>]
            ELSE [ok |-> TRUE, neg |-> neg, digits |-> mag]
        Digits(neg, run) ==
            Range(neg, run, StripLeadingZeros(run),
                  IF neg THEN LLongMinDigits ELSE LLongMaxDigits)
        Sign(neg, signed) ==
            Digits(neg, DigitRun(number, IF signed THEN 2 ELSE 1))
    IN  Sign(Len(number) > 0 /\ number[1] = Ord["-"],
             Len(number) > 0 /\ number[1] \in {Ord["-"], Ord["+"]})

(***************************************************************************)
(* std::stod: optional sign, digits, optional fraction, optional exponent. *)
(* It throws std::out_of_range when strtod reports ERANGE (overflow, or a  *)
(* result below the smallest normal double).                               *)
(***************************************************************************)
MaxExpDigits == 6

stod(number) ==
    LET \* the value mant * 10^exp, whose decimal exponent is sci
        Range(neg, ehuge, mant, exp, sci, m17) ==
            IF mant = <<>>
            THEN [ok |-> TRUE, neg |-> FALSE, digits |-> <<>>, exp |-> 0]
            ELSE IF ehuge
                    \/ sci > DblMaxExp10
                    \/ (sci = DblMaxExp10 /\ DigitsLess(DblMaxDigits, m17))
                    \/ sci < 0 - DblMaxExp10
                    \/ (sci = 0 - DblMaxExp10 /\ DigitsLess(m17, DblMinDigits))
            THEN [ok |-> FALSE, what |-> "stod"]
            ELSE [ok |-> TRUE, neg |-> neg, digits |-> mant, exp |-> exp]
        Normal(neg, ehuge, mant, exp) ==
            Range(neg, ehuge, mant, exp, Len(mant) - 1 + exp,
                  PadRight(mant, Len(DblMaxDigits)))
        Strip(neg, ehuge, e, all, tz) ==
            Normal(neg, ehuge, SubSeq(all, 1, Len(all) - tz), e + tz)
        Mantissa(neg, ehuge, e, all) ==
            Strip(neg, ehuge, e, all, TrailingZeros(all))
        \* int and frac are the digits around the point, edig the digits of
        \* the exponent
        Value(neg, int, frac, eneg, edig) ==
            IF int = <<>> /\ frac = <<>> THEN [ok |-> FALSE, what |-> "stod"]
            ELSE Mantissa(neg, Len(edig) > MaxExpDigits,
                          (IF Len(edig) > MaxExpDigits THEN 0
                           ELSE IF eneg THEN 0 - DigitsToNat(edig)
                           ELSE DigitsToNat(edig)) - Len(frac),
                          StripLeadingZeros(int \o frac))
        ExponentDigits(neg, int, frac, i2, hase, esigned) ==
            Value(neg, int, frac, esigned /\ number[i2 + 1] = Ord["-"],
                  IF hase
                  THEN StripLeadingZeros(
                           DigitRun(number,
                                    IF esigned THEN i2 + 2 ELSE i2 + 1))
                  ELSE <<>>)
        ExponentSign(neg, int, frac, i2, hase) ==
            ExponentDigits(neg, int, frac, i2, hase,
                           hase /\ i2 + 1 <= Len(number)
                           /\ number[i2 + 1] \in {Ord["-"], Ord["+"]})
        Exponent(neg, int, frac, i2) ==
            ExponentSign(neg, int, frac, i2,
                         i2 <= Len(number)
                         /\ number[i2] \in {Ord["e"], Ord["E"]})
        Fraction(neg, int, i1, frac) ==
            Exponent(neg, int, frac,
                     IF i1 <= Len(number) /\ number[i1] = Ord["."]
                     THEN i1 + 1 + Len(frac) ELSE i1)
        Point(neg, int, i1) ==
            Fraction(neg, int, i1,
                     IF i1 <= Len(number) /\ number[i1] = Ord["."]
                     THEN DigitRun(number, i1 + 1) ELSE <<>>)
        Integer(neg, i0, int) == Point(neg, int, i0 + Len(int))
        Sign(neg, i0) == Integer(neg, i0, DigitRun(number, i0))
    IN  Sign(Len(number) > 0 /\ number[1] = Ord["-"],
             IF Len(number) > 0 /\ number[1] \in {Ord["-"], Ord["+"]}
             THEN 2 ELSE 1)


(***************************************************************************)
(* Serialization (operator<< of each type, ToString).  An output stream is *)
(* a record of the octets written so far and the exception thrown, if any. *)
(***************************************************************************)
NewStream == [out |-> <<>>, err |-> NoError]

Put(os, octets) ==
    IF os.err # NoError THEN os ELSE [os EXCEPT !.out = @ \o octets]

StreamThrow(os, e) == IF os.err # NoError THEN os ELSE [os EXCEPT !.err = e]

\* unicode_constants.h
Maximum_Character_Value == 1114111
Maximum_BMP_Value == 65535
Surrogate_High_Min == 55296
Surrogate_High_Max == 56319
Surrogate_Low_Min == 56320
Surrogate_Low_MaxBMP == Maximum_BMP_Value
Surrogate_Low_Max == 57343
Lead_Offset == Surrogate_High_Min - (65536 \div 1024)
\* 0x10000 - (0xd800 << 10) - 0xdc00, a std::uint32_t that wraps; the sum it
\* is added to is taken modulo 2^32, which gives the same code point as the
\* signed arithmetic used here
Surrogate_Offset == 65536 - (Surrogate_High_Min * 1024) - Surrogate_Low_Min

HexDigitUpper(n) == IF n < 10 THEN Ord["0"] + n ELSE Ord["A"] + (n - 10)

FormatURaw(n) == <<n % 256>>

\* std::format("\\u{:04X}", static_cast<std::uint16_t>(n))
FormatU(n) ==
    LET v == n % 65536
    IN  <<Ord["\\"], Ord["u"],
          HexDigitUpper(v \div 4096), HexDigitUpper((v \div 256) % 16),
          HexDigitUpper((v \div 16) % 16), HexDigitUpper(v % 16)>>

\* the message ends with the octets of the string being written
InvalidUTF8(s) == <<"Invalid UTF-8 character sequence: ", s>>
InvalidUnicode(s) == <<"Invalid Unicode character: ", s>>

\* operator<<(std::ostream &, const JSONString &): the loop over the octets
RECURSIVE WriteStringLoop(_, _, _, _, _)
WriteStringLoop(os, s, i, expected_utf8_remaining, wide_character) ==
    IF os.err # NoError THEN os
    ELSE IF i > Len(s)
    THEN IF expected_utf8_remaining > 0 THEN StreamThrow(os, InvalidUTF8(s))
         ELSE Put(os, <<Ord["\""]>>)
    ELSE LET c == s[i] IN
      IF expected_utf8_remaining > 0
      THEN IF (c \div 64) # 2 THEN StreamThrow(os, InvalidUTF8(s))
           ELSE LET wide == (wide_character * 64) + (c % 64)
                    remaining == expected_utf8_remaining - 1
                IN  IF remaining > 0
                    THEN WriteStringLoop(os, s, i + 1, remaining, wide)
                    ELSE IF wide > Maximum_Character_Value
                    THEN StreamThrow(os, InvalidUnicode(s))
                    ELSE IF wide >= Surrogate_High_Min
                            /\ wide <= Surrogate_Low_Max
                    THEN StreamThrow(os, InvalidUTF8(s))
                    ELSE IF wide > Maximum_BMP_Value
                    THEN WriteStringLoop(
                             Put(os, FormatU(Lead_Offset + (wide \div 1024))
                                     \o FormatU(Surrogate_Low_Min
                                                + (wide % 1024))),
                             s, i + 1, 0, wide)
                    ELSE WriteStringLoop(Put(os, FormatU(wide)),
                                         s, i + 1, 0, wide)
      ELSE CASE c = Ord["\""] ->
                  WriteStringLoop(Put(os, <<Ord["\\"], Ord["\""]>>),
                                  s, i + 1, 0, wide_character)
             [] c = Ord["\\"] ->
                  WriteStringLoop(Put(os, <<Ord["\\"], Ord["\\"]>>),
                                  s, i + 1, 0, wide_character)
             [] c = Ord["<BS>"] ->
                  WriteStringLoop(Put(os, <<Ord["\\"], Ord["b"]>>),
                                  s, i + 1, 0, wide_character)
             [] c = Ord["<FF>"] ->
                  WriteStringLoop(Put(os, <<Ord["\\"], Ord["f"]>>),
                                  s, i + 1, 0, wide_character)
             [] c = Ord["\n"] ->
                  WriteStringLoop(Put(os, <<Ord["\\"], Ord["n"]>>),
                                  s, i + 1, 0, wide_character)
             [] c = Ord["\r"] ->
                  WriteStringLoop(Put(os, <<Ord["\\"], Ord["r"]>>),
                                  s, i + 1, 0, wide_character)
             [] c = Ord["\t"] ->
                  WriteStringLoop(Put(os, <<Ord["\\"], Ord["t"]>>),
                                  s, i + 1, 0, wide_character)
             [] c = Ord["~"] ->
                  WriteStringLoop(Put(os, FormatU(Ord["~"])),
                                  s, i + 1, 0, wide_character)
             [] OTHER ->
                  IF c < 32
                  THEN WriteStringLoop(Put(os, FormatU(c)),
                                       s, i + 1, 0, wide_character)
                  ELSE IF c > 127
                  THEN IF (c \div 32) = 6
                       THEN WriteStringLoop(os, s, i + 1, 1, c % 64)
                       ELSE IF (c \div 16) = 14
                       THEN WriteStringLoop(os, s, i + 1, 2, c % 16)
                       ELSE IF (c \div 8) = 30
                       THEN WriteStringLoop(os, s, i + 1, 3, c % 8)
                       ELSE StreamThrow(os, InvalidUTF8(s))
                  ELSE WriteStringLoop(Put(os, <<c>>),
                                       s, i + 1, 0, wide_character)

\* operator<<(std::ostream &, const JSONString &)
WriteString(os, s) == WriteStringLoop(Put(os, <<Ord["\""]>>), s, 1, 0, 0)

Zeros(n) == [i \in 1..n |-> Ord["0"]]

\* std::format("{}", double) for a finite value: the shortest digits that
\* read back as the same double, in fixed or in scientific notation,
\* whichever is shorter (fixed on a tie)
FormatFloat(n) ==
    LET d == n.digits
        len == Len(d)
        sci == len - 1 + n.exp
        fixed == IF n.exp >= 0 THEN DigitChars(d) \o Zeros(n.exp)
                 ELSE IF sci >= 0
                 THEN DigitChars(SubSeq(d, 1, sci + 1)) \o <<Ord["."]>>
                      \o DigitChars(SubSeq(d, sci + 2, len))
                 ELSE <<Ord["0"], Ord["."]>> \o Zeros(0 - sci - 1)
                      \o DigitChars(d)
        abs == IF sci < 0 THEN 0 - sci ELSE sci
        expo == IF abs < 10 THEN <<0>> \o NatToDigits(abs)
                ELSE NatToDigits(abs)
        scientific == DigitChars(<<d[1]>>)
                      \o (IF len > 1
                          THEN <<Ord["."]>> \o DigitChars(Tail(d))
                          ELSE <<>>)
                      \o <<Ord["e"], IF sci < 0 THEN Ord["-"] ELSE Ord["+"]>>
                      \o DigitChars(expo)
    IN  IF d = <<>> THEN <<Ord["0"]>>
        ELSE (IF n.neg THEN <<Ord["-"]>> ELSE <<>>)
             \o (IF Len(scientific) < Len(fixed) THEN scientific ELSE fixed)

WriteNumberUnchecked(os, n) ==
    IF IsFloat(n)
    THEN IF n.fp = "finite" THEN Put(os, FormatFloat(n))
         ELSE Put(os, T(<<"n", "a", "n">>))
    ELSE Put(os, (IF n.neg THEN <<Ord["-"]>> ELSE <<>>)
                 \o DigitChars(n.digits))

\* operator<<(std::ostream &, const JSONNumber &)
WriteNumber(os, n) ==
    IF IsFloat(n)
    THEN IF n.fp = "inf"
         THEN StreamThrow(os,
                  JSONException("Value of infinity is disallowed in JSON"))
         ELSE IF n.fp = "nan"
         THEN StreamThrow(os,
                  JSONException("Value of NaN is disallowed in JSON"))
         ELSE Put(os, FormatFloat(n))
    ELSE Put(os, (IF n.neg THEN <<Ord["-"]>> ELSE <<>>)
                 \o DigitChars(n.digits))

\* operator<<(std::ostream &, const JSONLiteral)
WriteLiteral(os, lit) ==
    CASE lit = "True" -> Put(os, T(<<"t", "r", "u", "e">>))
      [] lit = "False" -> Put(os, T(<<"f", "a", "l", "s", "e">>))
      [] lit = "Null" -> Put(os, T(<<"n", "u", "l", "l">>))
      [] OTHER -> StreamThrow(os, JSONException("Invalid JSON Literal value"))

\* the order of std::u8string (lexicographic on the octets)
RECURSIVE KeyLess(_, _)
KeyLess(a, b) ==
    IF b = <<>> THEN FALSE
    ELSE IF a = <<>> THEN TRUE
    ELSE IF a[1] # b[1] THEN a[1] < b[1]
    ELSE KeyLess(Tail(a), Tail(b))

\* the keys of a std::map in iteration order
RECURSIVE SortedKeys(_)
SortedKeys(keys) ==
    IF keys = {} THEN <<>>
    ELSE LET first == CHOOSE k \in keys :
                          \A o \in keys \ {k} : KeyLess(k, o)
         IN  <<first>> \o SortedKeys(keys \ {first})

\* operator<<(std::ostream &, const JSON &) and the operator<< of JSONObject
\* and JSONArray it calls, which call it back for every member
RECURSIVE WriteJSON(_, _)
RECURSIVE WriteMembers(_, _, _, _)
RECURSIVE WriteItems(_, _, _)
WriteMembers(os, object, keys, need_comma) ==
    IF os.err # NoError \/ keys = <<>> THEN os
    ELSE LET os1 == IF need_comma THEN Put(os, <<Ord[","], Ord[" "]>>) ELSE os
             os2 == Put(WriteString(os1, Head(keys)), <<Ord[":"], Ord[" "]>>)
         IN  WriteMembers(WriteJSON(os2, object.members[Head(keys)]),
                          object, Tail(keys), TRUE)

WriteItems(os, items, i) ==
    IF os.err # NoError \/ i > Len(items) THEN os
    ELSE WriteItems(
             WriteJSON(IF i > 1 THEN Put(os, <<Ord[","], Ord[" "]>>) ELSE os,
                       items[i]),
             items, i + 1)

WriteJSON(os, json) ==
    IF os.err # NoError THEN os
    ELSE CASE json.type = "String" -> WriteString(os, json.str)
           [] json.type = "Number" -> WriteNumber(os, json)
           [] json.type = "Object" ->
                Put(WriteMembers(Put(os, <<Ord["{"]>>), json,
                                 SortedKeys(DOMAIN json.members), FALSE),
                    <<Ord["}"]>>)
           [] json.type = "Array" ->
                Put(WriteItems(Put(os, <<Ord["["]>>), json.items, 1),
                    <<Ord["]"]>>)
           [] json.type = "Literal" -> WriteLiteral(os, json.lit)

\* JSON::ToString
ToString(json) == WriteJSON(NewStream, json)


(***************************************************************************)
(* JSONParser (json_parser.cpp).                                           *)
(*                                                                         *)
(* The members of the object are content/p (the text and the read          *)
(* position, p = Len(content) + 1 being q, one past the end), line, column *)
(* and composite_context.  root is the local JSONValue of                  *)
(* ParseInitialValue that the first frame points to; a frame's pointer is  *)
(* the path from root to the container it refers to.  callstack is the     *)
(* chain of active native calls; maxdepth, maxframes and reentered record  *)
(* the deepest native call chain, the largest composite_context and        *)
(* whether ParseObject/ParseArray was ever entered while one of them was   *)
(* active.  ub is the outcome this run of the build gives to a read        *)
(* through a dangling frame pointer.                                       *)
(***************************************************************************)
NoValue == [type |-> "None"]

\* the outcome of an accessor: the element it returns or the exception it
\* throws
Returned(v) == [ret |-> v, err |-> NoError]
Failed(e) == [ret |-> NoValue, err |-> e]

\* the record of a call: the accessor, its argument and its outcome
Called(op, arg, r) == [op |-> op, arg |-> arg, ret |-> r.ret, err |-> r.err]
NoAccess == Called("none", 0, Returned(NoValue))

\* what the build can do when a frame pointer whose referent was destroyed
\* is dereferenced: fault, read storage that holds neither container, or
\* read the storage now occupied by the current call's root value
UBOutcomes == {"crash", "other", "alias"}

Crash == <<"SIGSEGV">>

JSONParser ==
    [content |-> <<>>, p |-> 1, line |-> 0, column |-> 0,
     composite_context |-> <<>>, root |-> NoValue,
     err |-> NoError, ret |-> NoValue,
     callstack |-> <<>>, maxdepth |-> 0, maxframes |-> 0,
     reentered |-> FALSE, ub |-> "crash"]

StepFunctions == {"ParseObject", "ParseArray", "PrintObject", "PrintArray"}

Threw(ps) == ps.err # NoError

Throw(ps, e) == IF Threw(ps) THEN ps ELSE [ps EXCEPT !.err = e]

\* a native call of function f begins / ends
Enter(ps, f) ==
    [ps EXCEPT !.callstack = Append(@, f),
               !.maxdepth = Max(@, Len(ps.callstack) + 1),
               !.reentered = @ \/ (f \in StepFunctions
                                   /\ \E i \in DOMAIN ps.callstack :
                                          ps.callstack[i] \in StepFunctions)]

Leave(ps) ==
    [ps EXCEPT !.callstack = SubSeq(@, 1, Len(@) - 1)]

EndOfInput(ps) == ps.p > Len(ps.content)

RemainingInput(ps) == Len(ps.content) + 1 - ps.p

\* *p, and p[k]
Cur(ps) == ps.content[ps.p]
At(ps, k) == ps.content[ps.p + k]

AdvanceReadPosition(ps, steps) ==
    LET advance == IF steps <= RemainingInput(ps) THEN steps
                   ELSE RemainingInput(ps)
    IN  [ps EXCEPT !.p = @ + advance, !.column = @ + advance]

\* JSONParser::ConsumeWhitespace
RECURSIVE ConsumeWhitespace(_)
ConsumeWhitespace(ps) ==
    IF Threw(ps) \/ EndOfInput(ps) THEN ps
    ELSE IF Cur(ps) \in {Ord[" "], Ord["\r"], Ord["\t"]}
    THEN ConsumeWhitespace(AdvanceReadPosition(ps, 1))
    ELSE IF Cur(ps) = Ord["\n"]
    THEN ConsumeWhitespace([AdvanceReadPosition(ps, 1) EXCEPT !.column = 0])
    ELSE ps

\* JSONParser::DetermineValueType (the type is left in .ret)
DetermineValueType(ps) ==
    IF Threw(ps) THEN ps
    ELSE IF EndOfInput(ps)
    THEN Throw(ps, ParsingErrorString(ps.line, ps.column,
                                      "Incomplete JSON text"))
    ELSE LET c == Cur(ps) IN
         CASE c = Ord["\""] -> [ps EXCEPT !.ret = "String"]
           [] c = Ord["["] -> [ps EXCEPT !.ret = "Array"]
           [] c = Ord["{"] -> [ps EXCEPT !.ret = "Object"]
           [] c \in {Ord["t"], Ord["f"], Ord["n"]} ->
                [ps EXCEPT !.ret = "Literal"]
           [] c = Ord["-"] -> [ps EXCEPT !.ret = "Number"]
           [] OTHER ->
                IF IsDigit(c) THEN [ps EXCEPT !.ret = "Number"]
                ELSE Throw(ps, ParsingErrorString(ps.line, ps.column,
                                                  "Unknown value type"))

\* ConvertHexCharToInt; -1 stands for std::invalid_argument
ConvertHexCharToInt(hex_digit) ==
    IF hex_digit >= Ord["0"] /\ hex_digit <= Ord["9"]
    THEN hex_digit - Ord["0"]
    ELSE IF hex_digit >= Ord["a"] /\ hex_digit <= Ord["f"]
    THEN hex_digit - Ord["a"] + 10
    ELSE IF hex_digit >= Ord["A"] /\ hex_digit <= Ord["F"]
    THEN hex_digit - Ord["A"] + 10
    ELSE -1

\* ConvertHexStringToInt; -1 stands for std::invalid_argument
ConvertHexStringToInt(hex_string) ==
    IF Len(hex_string) # 4 THEN -1
    ELSE LET d == [i \in 1..4 |-> ConvertHexCharToInt(hex_string[i])]
         IN  IF \E i \in 1..4 : d[i] < 0 THEN -1
             ELSE ((d[1] * 16 + d[2]) * 16 + d[3]) * 16 + d[4]

\* the tail of JSONParser::ParseUnicode: the UTF-8 octets of a code point
\* (the empty sequence stands for the final throw)
EncodeUTF8ASCII(code_value) ==
    IF code_value <= 127 THEN <<code_value>> ELSE <<>>
EncodeUTF8(code_value) ==
    IF code_value <= 127 THEN <<code_value>>
    ELSE IF code_value <= 2047
    THEN <<192 + ((code_value \div 64) % 32), 128 + (code_value % 64)>>
    ELSE IF code_value <= 65535
    THEN <<224 + ((code_value \div 4096) % 16),
           128 + ((code_value \div 64) % 64), 128 + (code_value % 64)>>
    ELSE IF code_value <= 1114111
    THEN <<240 + ((code_value \div 262144) % 8),
           128 + ((code_value \div 4096) % 64),
           128 + ((code_value \div 64) % 64), 128 + (code_value % 64)>>
    ELSE <<>>

\* JSONParser::ParseUnicode: the octets to append are left in .ret
ParseUnicode(ps0) ==
    LET \* the code point of a surrogate pair
        Pair(ps3, initial_column, cp) ==
            IF EncodeUTF8(cp) = <<>>
            THEN Throw(ps3, ParsingErrorString(ps3.line, initial_column,
                                               "Unicode value is invalid"))
            ELSE [ps3 EXCEPT !.ret = EncodeUTF8(cp)]
        \* after the four hex digits of the low surrogate
        Low(ps3, initial_column, code_value, low_code_value) ==
            IF low_code_value < 0
            THEN Throw(ps3, ParsingErrorString(ps3.line, ps3.column - 4,
                                               "Invalid hex digit"))
            ELSE IF low_code_value < Surrogate_Low_Min
                    \/ low_code_value > Surrogate_Low_Max
            THEN Throw(ps3, ParsingErrorString(ps3.line, ps3.column - 6,
                              "Expected low Unicode surrogate value"))
            ELSE Pair(ps3, initial_column,
                      (code_value * 1024) + low_code_value + Surrogate_Offset)
        \* after the "\u" that follows a high surrogate
        LowDigits(ps2, initial_column, code_value) ==
            Low(AdvanceReadPosition(ps2, 4), initial_column, code_value,
                ConvertHexStringToInt(<<At(ps2, 0), At(ps2, 1),
                                        At(ps2, 2), At(ps2, 3)>>))
        \* after the first four hex digits
        First(ps1, initial_column, code_value) ==
            IF code_value < 0
            THEN Throw(ps1, ParsingErrorString(ps1.line, ps1.column - 4,
                                               "Invalid hex digit"))
            ELSE IF code_value >= Surrogate_High_Min
                    /\ code_value <= Surrogate_Low_Max
            THEN IF code_value >= Surrogate_Low_Min
                    /\ code_value <= Surrogate_Low_Max
                 THEN Throw(ps1, ParsingErrorString(ps1.line, ps1.column - 6,
                                   "Unexpected low Unicode surrogate found"))
                 ELSE IF RemainingInput(ps1) < 6
                 THEN Throw(ps1, ParsingErrorString(ps1.line, ps1.column,
                          "Insufficient input following high Unicode surrogate"))
                 ELSE IF At(ps1, 0) # Ord["\\"] \/ At(ps1, 1) # Ord["u"]
                 THEN Throw(ps1, ParsingErrorString(ps1.line, ps1.column,
                          "Expected low Unicode surrogate, but did not find one"))
                 ELSE LowDigits([ps1 EXCEPT !.p = @ + 2, !.column = @ + 2],
                                initial_column, code_value)
            ELSE [ps1 EXCEPT !.ret = EncodeUTF8(code_value)]
        Body(ps) ==
            IF RemainingInput(ps) < 4
            THEN Throw(ps, ParsingErrorString(ps.line, ps.column,
                             "Insufficient input following \\u sequence"))
            ELSE First(AdvanceReadPosition(ps, 4), ps.column,
                       ConvertHexStringToInt(<<At(ps, 0), At(ps, 1),
                                               At(ps, 2), At(ps, 3)>>))
    IN  Leave(Body(Enter(ps0, "ParseUnicode")))

\* JSONParser::ParseString: control characters are not permitted in strings
ControlCharacterBelowTab(c) == c < 9
ControlCharacter(c) == c < 32

\* JSONParser::ParseString: the loop over the octets after the opening quote
RECURSIVE ParseStringLoop(_, _, _)
ParseStringLoop(ps, value, handle_escape) ==
    IF Threw(ps) \/ EndOfInput(ps)
    THEN [ps |-> ps, value |-> value, close_quote |-> FALSE]
    ELSE LET c == Cur(ps) IN
      IF ControlCharacter(c)
      THEN [ps |-> Throw(ps, ParsingErrorString(ps.line, ps.column,
                               "Illegal control character in string")),
            value |-> value, close_quote |-> FALSE]
      ELSE IF handle_escape
      THEN CASE c = Ord["b"] ->
                  ParseStringLoop(AdvanceReadPosition(ps, 1),
                                  Append(value, Ord["<BS>"]), FALSE)
             [] c = Ord["f"] ->
                  ParseStringLoop(AdvanceReadPosition(ps, 1),
                                  Append(value, Ord["<FF>"]), FALSE)
             [] c = Ord["n"] ->
                  ParseStringLoop(AdvanceReadPosition(ps, 1),
                                  Append(value, Ord["\n"]), FALSE)
             [] c = Ord["r"] ->
                  ParseStringLoop(AdvanceReadPosition(ps, 1),
                                  Append(value, Ord["\r"]), FALSE)
             [] c = Ord["t"] ->
                  ParseStringLoop(AdvanceReadPosition(ps, 1),
                                  Append(value, Ord["\t"]), FALSE)
             [] c = Ord["u"] ->
                  LET Unicode(pu) ==
                          IF Threw(pu)
                          THEN [ps |-> pu, value |-> value,
                                close_quote |-> FALSE]
                          ELSE ParseStringLoop(pu, value \o pu.ret, FALSE)
                  IN  Unicode(ParseUnicode(AdvanceReadPosition(ps, 1)))
             [] OTHER ->
                  ParseStringLoop(AdvanceReadPosition(ps, 1),
                                  Append(value, c), FALSE)
      ELSE IF c = Ord["\""]
      THEN [ps |-> AdvanceReadPosition(ps, 1), value |-> value,
            close_quote |-> TRUE]
      ELSE IF c = Ord["\\"]
      THEN ParseStringLoop(AdvanceReadPosition(ps, 1), value, TRUE)
      ELSE ParseStringLoop(AdvanceReadPosition(ps, 1), Append(value, c), FALSE)

\* JSONParser::ParseString
ParseString(ps0) ==
    LET Closed(r) ==
            IF Threw(r.ps) THEN r.ps
            ELSE IF ~r.close_quote
            THEN Throw(r.ps, ParsingErrorString(r.ps.line, r.ps.column,
                                 "No closing quote parsing string"))
            ELSE [r.ps EXCEPT !.ret = JSONString(r.value)]
        Body(ps) ==
            IF EndOfInput(ps)
            THEN Throw(ps, ParsingErrorString(ps.line, ps.column,
                                              "Incomplete JSON text"))
            ELSE IF Cur(ps) # Ord["\""]
            THEN Throw(ps, ParsingErrorString(ps.line, ps.column,
                                              "Expected leading quote mark"))
            ELSE Closed(ParseStringLoop(AdvanceReadPosition(ps, 1),
                                        <<>>, FALSE))
    IN  Leave(Body(Enter(ps0, "ParseString")))

\* JSONParser::ParseNumber: the lexer loop.  It returns the parser, the
\* accumulated text and the flags valid_number and is_float.
RECURSIVE ParseNumberLoop(_, _, _, _, _)
ParseNumberLoop(ps, state, number, valid_number, is_float) ==
    LET done == [ps |-> ps, number |-> number,
                 valid_number |-> valid_number, is_float |-> is_float]
        invalid == [done EXCEPT
                      !.ps = Throw(ps, ParsingErrorString(ps.line, ps.column,
                                                          "Invalid number"))]
    IN
    IF Threw(ps) \/ EndOfInput(ps) THEN done
    ELSE LET c == Cur(ps)
             take == AdvanceReadPosition(ps, 1)
             num == Append(number, c)
         IN
      CASE state = "Sign" ->
             IF c = Ord["-"]
             THEN ParseNumberLoop(take, "Integer", num, valid_number, is_float)
             ELSE IF IsDigit(c)
             THEN ParseNumberLoop(ps, "Integer", number, valid_number,
                                  is_float)
             ELSE done
        [] state = "Integer" ->
             IF IsDigit(c)
             THEN ParseNumberLoop(take, "Integer", num, TRUE, is_float)
             ELSE IF c = Ord["."]
             THEN IF ~valid_number THEN invalid
                  ELSE ParseNumberLoop(take, "Float", num, FALSE, TRUE)
             ELSE IF c \in {Ord["e"], Ord["E"]}
             THEN IF ~valid_number THEN invalid
                  ELSE ParseNumberLoop(take, "ExponentSign", num, FALSE, TRUE)
             ELSE done
        [] state = "Float" ->
             IF IsDigit(c)
             THEN ParseNumberLoop(take, "Float", num, TRUE, is_float)
             ELSE IF c \in {Ord["e"], Ord["E"]}
             THEN IF ~valid_number THEN invalid
                  ELSE ParseNumberLoop(take, "ExponentSign", num, FALSE,
                                       is_float)
             ELSE done
        [] state = "ExponentSign" ->
             IF c \in {Ord["-"], Ord["+"]}
             THEN ParseNumberLoop(take, "Exponent", num, valid_number,
                                  is_float)
             ELSE IF IsDigit(c)
             THEN ParseNumberLoop(ps, "Exponent", number, valid_number,
                                  is_float)
             ELSE done
        [] state = "Exponent" ->
             IF IsDigit(c)
             THEN ParseNumberLoop(take, "Exponent", num, TRUE, is_float)
             ELSE done

\* JSONParser::ParseNumber: the conversion of the accumulated text
ConvertNumberInteger(ps, number, is_float) ==
    LET Converted(conv) ==
            IF ~conv.ok
            THEN Throw(ps, ParsingErrorString(ps.line, ps.column,
                               "Failed converting number: stoll"))
            ELSE [ps EXCEPT !.ret = JSONInteger(conv.neg, conv.digits)]
    IN  Converted(stoll(number))
ConvertNumber(ps, number, is_float) ==
    LET Converted(conv) ==
            IF ~conv.ok
            THEN Throw(ps, ParsingErrorString(ps.line, ps.column,
                               IF is_float
                               THEN "Failed converting number: stod"
                               ELSE "Failed converting number: stoll"))
            ELSE IF is_float
            THEN [ps EXCEPT !.ret = JSONFloat(conv.neg, conv.digits, conv.exp)]
            ELSE [ps EXCEPT !.ret = JSONInteger(conv.neg, conv.digits)]
    IN  IF is_float THEN Converted(stod(number))
        ELSE Converted(stoll(number))

\* JSONParser::ParseNumber
ParseNumber(ps0) ==
    LET Lexed(r) ==
            IF Threw(r.ps) THEN r.ps
            ELSE IF ~r.valid_number
            THEN Throw(r.ps, ParsingErrorString(r.ps.line, r.ps.column,
                                                "Invalid number"))
            ELSE ConvertNumber(r.ps, r.number, r.is_float)
        Body(ps) ==
            IF EndOfInput(ps)
            THEN Throw(ps, ParsingErrorString(ps.line, ps.column,
                                              "Incomplete JSON number"))
            ELSE Lexed(ParseNumberLoop(ps, "Sign", <<>>, FALSE, FALSE))
    IN  Leave(Body(Enter(ps0, "ParseNumber")))

\* does the text at the read position start with the octets of word?
LooksAtPrefix(ps, word) ==
    \A k \in 1..Len(word) :
        k <= RemainingInput(ps) => At(ps, k - 1) = word[k]
LooksAt(ps, word) ==
    /\ RemainingInput(ps) >= Len(word)
    /\ \A k \in 1..Len(word) : At(ps, k - 1) = word[k]

\* JSONParser::ParseLiteral
ParseLiteral(ps0) ==
    LET Unknown(ps) ==
            Throw(ps, ParsingErrorString(ps.line, ps.column,
                                         "Unknown JSON literal"))
        Body(ps) ==
            IF EndOfInput(ps)
            THEN Throw(ps, ParsingErrorString(ps.line, ps.column,
                                              "Incomplete JSON text"))
            ELSE CASE Cur(ps) = Ord["f"] ->
                        IF LooksAt(ps, T(<<"f", "a", "l", "s", "e">>))
                        THEN [ps EXCEPT !.p = @ + 5, !.column = @ + 5,
                                        !.ret = JSONLiteral("False")]
                        ELSE Unknown(ps)
                   [] Cur(ps) = Ord["t"] ->
                        IF LooksAt(ps, T(<<"t", "r", "u", "e">>))
                        THEN [ps EXCEPT !.p = @ + 4, !.column = @ + 4,
                                        !.ret = JSONLiteral("True")]
                        ELSE Unknown(ps)
                   [] Cur(ps) = Ord["n"] ->
                        IF LooksAt(ps, T(<<"n", "u", "l", "l">>))
                        THEN [ps EXCEPT !.p = @ + 4, !.column = @ + 4,
                                        !.ret = JSONLiteral("Null")]
                        ELSE Unknown(ps)
                   [] OTHER -> Unknown(ps)
    IN  Leave(Body(Enter(ps0, "ParseLiteral")))

\* JSONParser::ParsePrimitiveValue
ParsePrimitiveValue(ps0, value_type) ==
    LET Body(ps) ==
            CASE value_type = "String" -> ParseString(ps)
              [] value_type = "Number" -> ParseNumber(ps)
              [] value_type = "Literal" -> ParseLiteral(ps)
              [] value_type \in {"Object", "Array"} ->
                   Throw(ps, JSONException("Unexpected composite type"))
              [] OTHER ->
                   Throw(ps, JSONException("Unknown value type provided"))
    IN  Leave(Body(Enter(ps0, "ParsePrimitiveValue")))

(***************************************************************************)
(* Frames of composite_context and the containers they point to.           *)
(***************************************************************************)
Frame(path) ==
    [path |-> path, opening_seen |-> FALSE, member_seen |-> FALSE,
     closing_seen |-> FALSE, dangling |-> FALSE]

\* a step of a path: the key of an Object member or the index of an Array item
KeyStep(key) == [key |-> key, idx |-> 0]
IdxStep(idx) == [key |-> <<>>, idx |-> idx]

RECURSIVE GetAt(_, _)
GetAt(v, path) ==
    IF path = <<>> THEN v
    ELSE IF v.type = "Array" THEN GetAt(v.items[Head(path).idx], Tail(path))
    ELSE GetAt(v.members[Head(path).key], Tail(path))

RECURSIVE SetAt(_, _, _)
SetAt(v, path, new) ==
    IF path = <<>> THEN new
    ELSE IF v.type = "Array"
    THEN [v EXCEPT !.items[Head(path).idx] = SetAt(@, Tail(path), new)]
    ELSE [v EXCEPT !.members[Head(path).key] = SetAt(@, Tail(path), new)]

Back(ps) == ps.composite_context[Len(ps.composite_context)]

\* the path a frame's pointer resolves to: a dangling pointer that reads the
\* storage of the current root resolves to the root
FramePath(f) == IF f.dangling THEN <<>> ELSE f.path

\* *composite_context.back().value
BackValue(ps) == GetAt(ps.root, FramePath(Back(ps)))

SetBackValue(ps, v) ==
    [ps EXCEPT !.root = SetAt(@, FramePath(Back(ps)), v)]

\* opening_seen is never set
SetBackFlagLater(ps, flag) ==
    [ps EXCEPT !.composite_context[Len(ps.composite_context)] =
        CASE flag = "opening_seen" -> @
          [] flag = "member_seen" -> [@ EXCEPT !.member_seen = TRUE]
          [] flag = "closing_seen" -> [@ EXCEPT !.closing_seen = TRUE]]

SetBackFlag(ps, flag) ==
    [ps EXCEPT !.composite_context[Len(ps.composite_context)] =
        CASE flag = "opening_seen" -> [@ EXCEPT !.opening_seen = TRUE]
          [] flag = "member_seen" -> [@ EXCEPT !.member_seen = TRUE]
          [] flag = "closing_seen" -> [@ EXCEPT !.closing_seen = TRUE]]

\* composite_context.emplace_back(&child, false, false, false)
PushFrame(ps, step) ==
    LET ctx == Append(ps.composite_context,
                      Frame(Append(FramePath(Back(ps)), step)))
    IN  [ps EXCEPT !.composite_context = ctx,
                   !.maxframes = Max(@, Len(ctx))]

PopFrame(ps) ==
    [ps EXCEPT !.composite_context = SubSeq(@, 1, Len(@) - 1)]

\* std::holds_alternative<...>(*composite_context.back().value): the type
\* read through the frame pointer ("Crash" and "Other" can only come from a
\* dangling pointer)
BackType(ps) ==
    IF Back(ps).dangling /\ ps.ub = "crash" THEN "Crash"
    ELSE IF Back(ps).dangling /\ ps.ub = "other" THEN "Other"
    ELSE BackValue(ps).type


(***************************************************************************)
(* JSONParser::ParseObject.  One call handles the frame at the back of     *)
(* composite_context until its closing brace, or until a member's value    *)
(* is a nested Object/Array, for which it pushes a frame and returns.      *)
(* A function is split where it calls another one: each part takes what    *)
(* the part before it produced.                                            *)
(***************************************************************************)
\* the flow of control after a part of the body of the member loop
Flow(ps, ctl) == [ps |-> ps, ctl |-> ctl]

\* the switch on the type of the member's value: a nested Object or Array
\* gets a placeholder and a frame, and the function returns.  The name of
\* the member is still in ms.ret.
ParseObjectValue(ms, vt) ==
    LET Store(pv) ==
            IF Threw(pv) THEN Flow(pv, "throw")
            ELSE Flow(SetBackValue(pv,
                          JSONObject(MapAssign(BackValue(pv).members,
                                               ms.ret.str, pv.ret))),
                      "continue")
    IN  IF Threw(vt) THEN Flow(vt, "throw")
        ELSE IF vt.ret \in {"Object", "Array"}
        THEN Flow(PushFrame(SetBackValue(ms,
                      JSONObject(MapAssign(BackValue(ms).members, ms.ret.str,
                                           IF vt.ret = "Object"
                                           THEN JSONObject(EmptyMap)
                                           ELSE JSONArray(<<>>)))),
                  KeyStep(ms.ret.str)), "return")
        ELSE Store(ParsePrimitiveValue(ms, vt.ret))

\* from the parsed name ks to the value: the duplicate check, the colon and
\* the whitespace around it; member_seen = true
ParseObjectColon(ks) ==
    LET AfterColon(w2) ==
            IF EndOfInput(w2) THEN Flow(w2, "break")
            ELSE Flow(SetBackFlag(w2, "member_seen"), "continue")
        Colon(w1) ==
            IF EndOfInput(w1) THEN Flow(w1, "break")
            ELSE IF Cur(w1) # Ord[":"]
            THEN Flow(Throw(w1, ParsingErrorString(w1.line, w1.column,
                                                   "Expected a string")),
                      "throw")
            ELSE AfterColon(ConsumeWhitespace(AdvanceReadPosition(w1, 1)))
    IN  IF Threw(ks) THEN Flow(ks, "throw")
        ELSE IF HasKey(BackValue(ks), ks.ret.str)
        THEN Flow(Throw(ks, ParsingErrorString(ks.line, ks.column,
                                               "Duplicate name")), "throw")
        ELSE Colon(ConsumeWhitespace(ks))

\* value_type = DetermineValueType(), once the colon is behind
ParseObjectTyped(col) ==
    IF col.ctl # "continue" THEN col
    ELSE ParseObjectValue(col.ps, DetermineValueType(col.ps))

\* one member, after the separator sep: the name must be a string
ParseObjectMember(sep) ==
    IF sep.ctl # "continue" THEN sep
    ELSE IF Threw(DetermineValueType(sep.ps))
    THEN Flow(DetermineValueType(sep.ps), "throw")
    ELSE IF DetermineValueType(sep.ps).ret # "String"
    THEN Flow(Throw(sep.ps, ParsingErrorString(sep.ps.line, sep.ps.column,
                                               "Expected a string")),
              "throw")
    ELSE ParseObjectTyped(ParseObjectColon(ParseString(sep.ps)))

\* the top of the loop body, up to the member.  The closing
\* brace ends the loop, and every member but the first follows a comma.
ParseObjectSeparator(ps) ==
    LET AfterComma(c) ==
            IF EndOfInput(c) THEN Flow(c, "break")
            ELSE IF Cur(c) = Ord["}"]
            THEN Flow(Throw(c, ParsingErrorString(c.line, c.column,
                                   "Premature end of JSON object")), "throw")
            ELSE Flow(c, "continue")
        Body(w) ==
            IF EndOfInput(w) THEN Flow(w, "break")
            ELSE IF Cur(w) = Ord["}"]
            THEN Flow(SetBackFlag(AdvanceReadPosition(w, 1), "closing_seen"),
                      "break")
            ELSE IF ~Back(w).member_seen THEN Flow(w, "continue")
            ELSE IF Cur(w) # Ord[","]
            THEN Flow(Throw(w, ParsingErrorString(w.line, w.column, "Expected a comma")),
                      "throw")
            ELSE AfterComma(ConsumeWhitespace(
                     AdvanceReadPosition(w, 1)))
    IN  Body(ConsumeWhitespace(ps))

\* the member loop: while (!closing_seen && !EndOfInput())
RECURSIVE ParseObjectLoop(_)
ParseObjectLoop(ps) ==
    LET Next(m) == IF m.ctl = "continue" THEN ParseObjectLoop(m.ps) ELSE m
    IN  IF Threw(ps) THEN Flow(ps, "throw")
        ELSE IF Back(ps).closing_seen \/ EndOfInput(ps)
        THEN Flow(ps, "break")
        ELSE Next(ParseObjectMember(ParseObjectSeparator(ps)))

\* the function after its entry
ParseObjectBody(ps) ==
    LET Closed(r) ==
            IF r.ctl \in {"throw", "return"} THEN r.ps
            ELSE IF ~Back(r.ps).closing_seen
            THEN Throw(r.ps, ParsingErrorString(r.ps.line, r.ps.column,
                                 "Unexpected end of JSON object"))
            ELSE r.ps
    IN  IF ps.composite_context = <<>>
        THEN Throw(ps, JSONException("Composite context unexpectedly empty"))
        ELSE IF BackType(ps) = "Crash" THEN Throw(ps, Crash)
        ELSE IF BackType(ps) # "Object"
        THEN Throw(ps, JSONException("Unexpected type in composite context"))
        ELSE IF EndOfInput(ps)
        THEN Throw(ps, ParsingErrorString(ps.line, ps.column, "Incomplete JSON object"))
        ELSE IF ~Back(ps).opening_seen /\ Cur(ps) # Ord["{"]
        THEN Throw(ps, ParsingErrorString(ps.line, ps.column, "Expected leading brace"))
        ELSE Closed(ParseObjectLoop(
                 IF ~Back(ps).opening_seen
                 THEN AdvanceReadPosition(SetBackFlag(ps, "opening_seen"), 1)
                 ELSE ps))

ParseObject(ps0) == Leave(ParseObjectBody(Enter(ps0, "ParseObject")))

(***************************************************************************)
(* JSONParser::ParseArray                                                  *)
(***************************************************************************)
\* the switch on the type of the item: a nested Object or Array gets a
\* placeholder and a frame, and the function returns
ParseArrayValue(ms, vt) ==
    LET Store(pv) ==
            IF Threw(pv) THEN Flow(pv, "throw")
            ELSE Flow(SetBackValue(pv,
                          JSONArray(Append(BackValue(pv).items, pv.ret))),
                      "continue")
    IN  IF Threw(vt) THEN Flow(vt, "throw")
        ELSE IF vt.ret \in {"Object", "Array"}
        THEN Flow(PushFrame(SetBackValue(ms,
                      JSONArray(Append(BackValue(ms).items,
                                       IF vt.ret = "Object"
                                       THEN JSONObject(EmptyMap)
                                       ELSE JSONArray(<<>>)))),
                  IdxStep(Len(BackValue(ms).items) + 1)), "return")
        ELSE Store(ParsePrimitiveValue(ms, vt.ret))

\* one item, after the separator sep: member_seen = true;
\* value_type = DetermineValueType()
ParseArrayMember(sep) ==
    IF sep.ctl # "continue" THEN sep
    ELSE ParseArrayValue(SetBackFlag(sep.ps, "member_seen"),
                         DetermineValueType(
                             SetBackFlag(sep.ps, "member_seen")))

\* no comma is asked for between two items
ParseArraySeparatorLenient(ps) ==
    LET AfterComma(c) ==
            IF EndOfInput(c) THEN Flow(c, "break")
            ELSE IF Cur(c) = Ord["]"]
            THEN Flow(Throw(c, ParsingErrorString(c.line, c.column,
                                   "Premature end of JSON array")), "throw")
            ELSE Flow(c, "continue")
        Body(w) ==
            IF EndOfInput(w) THEN Flow(w, "break")
            ELSE IF Cur(w) = Ord["]"]
            THEN Flow(SetBackFlag(AdvanceReadPosition(w, 1), "closing_seen"),
                      "break")
            ELSE IF ~Back(w).member_seen THEN Flow(w, "continue")
            ELSE IF Cur(w) # Ord[","] THEN Flow(w, "continue")
            ELSE AfterComma(ConsumeWhitespace(
                     AdvanceReadPosition(w, 1)))
    IN  Body(ConsumeWhitespace(ps))

\* the top of the loop body, up to the member.  The closing
\* bracket ends the loop, and every member but the first follows a comma.
ParseArraySeparator(ps) ==
    LET AfterComma(c) ==
            IF EndOfInput(c) THEN Flow(c, "break")
            ELSE IF Cur(c) = Ord["]"]
            THEN Flow(Throw(c, ParsingErrorString(c.line, c.column,
                                   "Premature end of JSON array")), "throw")
            ELSE Flow(c, "continue")
        Body(w) ==
            IF EndOfInput(w) THEN Flow(w, "break")
            ELSE IF Cur(w) = Ord["]"]
            THEN Flow(SetBackFlag(AdvanceReadPosition(w, 1), "closing_seen"),
                      "break")
            ELSE IF ~Back(w).member_seen THEN Flow(w, "continue")
            ELSE IF Cur(w) # Ord[","]
            THEN Flow(Throw(w, ParsingErrorString(w.line, w.column, "Expected a comma")),
                      "throw")
            ELSE AfterComma(ConsumeWhitespace(
                     AdvanceReadPosition(w, 1)))
    IN  Body(ConsumeWhitespace(ps))

\* the member loop: while (!closing_seen && !EndOfInput())
RECURSIVE ParseArrayLoop(_)
ParseArrayLoop(ps) ==
    LET Next(m) == IF m.ctl = "continue" THEN ParseArrayLoop(m.ps) ELSE m
    IN  IF Threw(ps) THEN Flow(ps, "throw")
        ELSE IF Back(ps).closing_seen \/ EndOfInput(ps)
        THEN Flow(ps, "break")
        ELSE Next(ParseArrayMember(ParseArraySeparator(ps)))

\* the function after its entry
ParseArrayBody(ps) ==
    LET Closed(r) ==
            IF r.ctl \in {"throw", "return"} THEN r.ps
            ELSE IF ~Back(r.ps).closing_seen
            THEN Throw(r.ps, ParsingErrorString(r.ps.line, r.ps.column,
                                 "Unexpected end of JSON array"))
            ELSE r.ps
    IN  IF ps.composite_context = <<>>
        THEN Throw(ps, JSONException("Composite context unexpectedly empty"))
        ELSE IF BackType(ps) = "Crash" THEN Throw(ps, Crash)
        ELSE IF BackType(ps) # "Array"
        THEN Throw(ps, JSONException("Unexpected type in composite context"))
        ELSE IF EndOfInput(ps)
        THEN Throw(ps, ParsingErrorString(ps.line, ps.column, "Incomplete JSON array"))
        ELSE IF ~Back(ps).opening_seen /\ Cur(ps) # Ord["["]
        THEN Throw(ps, ParsingErrorString(ps.line, ps.column, "Expected leading bracket"))
        ELSE Closed(ParseArrayLoop(
                 IF ~Back(ps).opening_seen
                 THEN AdvanceReadPosition(SetBackFlag(ps, "opening_seen"), 1)
                 ELSE ps))

RECURSIVE ParseArrayDescending(_)
ParseArrayDescending(ps0) ==
    LET Nested(r) ==
            IF ~Threw(r)
               /\ Len(r.composite_context) > Len(ps0.composite_context)
            THEN ParseArrayDescending(r)
            ELSE r
    IN  Leave(Nested(ParseArrayBody(Enter(ps0, "ParseArray"))))
ParseArray(ps0) == Leave(ParseArrayBody(Enter(ps0, "ParseArray")))

\* the frame of a closed composite stays
PopIfClosedNever(r) == r

\* if (composite_context.back().closing_seen) composite_context.pop_back()
PopIfClosed(r) ==
    IF Threw(r) THEN r
    ELSE IF Back(r).closing_seen THEN PopFrame(r) ELSE r

\* composite_context.emplace_back(&local, false, false, false)
PushRoot(ps, local) ==
    [ps EXCEPT !.root = local,
               !.composite_context = Append(@, Frame(<<>>)),
               !.maxframes = Max(@, Len(ps.composite_context) + 1)]

(***************************************************************************)
(* JSONParser::ParseCompositeValue, the driving loop.                      *)
(***************************************************************************)
\* one iteration of while (!composite_context.empty())
ParseCompositeStep(ps) ==
    CASE BackType(ps) = "Crash" -> Throw(ps, Crash)
      [] BackType(ps) = "Object" -> PopIfClosed(ParseObject(ps))
      [] BackType(ps) = "Array" -> PopIfClosed(ParseArray(ps))
      [] OTHER ->
           Throw(ps, JSONException("Unexpected type in composite context"))

RECURSIVE ParseCompositeLoop(_)
ParseCompositeLoop(ps) ==
    IF Threw(ps) \/ ps.composite_context = <<>> THEN ps
    ELSE ParseCompositeLoop(ParseCompositeStep(ps))

ParseCompositeValue(ps0) ==
    Leave(IF ps0.composite_context = <<>>
          THEN Throw(Enter(ps0, "ParseCompositeValue"),
                     JSONException("Composite context unexpectedly empty"))
          ELSE ParseCompositeLoop(Enter(ps0, "ParseCompositeValue")))

(***************************************************************************)
(* JSONParser::ParseInitialValue.  The root Object/Array is a local of     *)
(* this function; the frame pushed for it points at that local.            *)
(***************************************************************************)
\* the function after its entry, with the type of the top-level value
ParseInitialBody(ps, vt) ==
    LET Return(r) ==
            IF Threw(r) THEN r
            ELSE IF r.composite_context # <<>>
            THEN Throw(r, JSONException("Error parsing composite type"))
            ELSE [r EXCEPT !.ret = r.root]
    IN  IF Threw(vt) THEN vt
        ELSE IF vt.ret \in {"Object", "Array"}
        THEN Return(ParseCompositeValue(
                        PushRoot(ps, IF vt.ret = "Object"
                                     THEN JSONObject(EmptyMap)
                                     ELSE JSONArray(<<>>))))
        ELSE ParsePrimitiveValue(ps, vt.ret)

ParseInitialValue(ps0) ==
    Leave(ParseInitialBody(Enter(ps0, "ParseInitialValue"),
                           DetermineValueType(Enter(ps0, "ParseInitialValue"))))

\* after the trailing whitespace: nothing may follow the value
ParseTrailingIgnored(t) == t
ParseTrailing(t) ==
    IF ~EndOfInput(t)
    THEN Throw(t, ParsingErrorString(t.line, t.column, "Unexpected character"))
    ELSE t

\* the call from the leading whitespace on
ParseBody(w) ==
    LET Value(v) == IF Threw(v) THEN v ELSE ParseTrailing(ConsumeWhitespace(v))
    IN  IF EndOfInput(w)
        THEN Throw(w, JSONException(
                          "The content string contains only whitespace"))
        ELSE Value(ParseInitialValue(w))

\* the instance as a call of Parse or Print finds it, with the text to read;
\* ub is the outcome the build produces should the call dereference a
\* dangling frame pointer
BeginCall(self, content, ub) ==
    [self EXCEPT !.content = content, !.p = 1, !.line = 0, !.column = 0,
                 !.err = NoError, !.root = NoValue, !.ub = ub,
                 !.callstack = <<>>, !.maxdepth = 0, !.maxframes = 0,
                 !.reentered = FALSE]

\* what is left of the instance when a call ends: the frames still in
\* composite_context point at storage the call has destroyed
EndCall(ps) ==
    [ps EXCEPT !.composite_context =
                   [i \in DOMAIN @ |-> [@[i] EXCEPT !.dangling = TRUE]],
               !.root = NoValue, !.ub = "crash"]

(***************************************************************************)
(* JSONParser::Parse(content) on the instance self.  Nothing is returned   *)
(* when the call throws.                                                   *)
(***************************************************************************)
Parse(self, content, ub) ==
    LET Return(ps) == [ps EXCEPT !.ret = IF Threw(ps) THEN NoValue ELSE @]
    IN  Return(EndCall(Leave(
            IF content = <<>>
            THEN Throw(Enter(BeginCall(self, content, ub), "Parse"),
                       JSONException("The content string is empty"))
            ELSE ParseBody(ConsumeWhitespace(
                     Enter(BeginCall(self, content, ub), "Parse"))))))

(***************************************************************************)
(* The same call cut at the iterations of the driving loop, so that other  *)
(* work can run between two iterations: ParseStart runs the call up to the *)
(* loop of ParseCompositeValue (or to its end, if it never gets there),    *)
(* ParseCompositeStep is one iteration, ParseFinish what follows the loop. *)
(***************************************************************************)
Top(ps) == IF ps.callstack = <<>> THEN "" ELSE ps.callstack[Len(ps.callstack)]

\* ParseInitialValue from the type of the value on
ParseStartTyped(ps, vt) ==
    IF Threw(vt) THEN vt
    ELSE IF vt.ret \in {"Object", "Array"}
    THEN Enter(PushRoot(ps, IF vt.ret = "Object" THEN JSONObject(EmptyMap)
                            ELSE JSONArray(<<>>)),
               "ParseCompositeValue")
    ELSE ParsePrimitiveValue(ps, vt.ret)

\* Parse after the leading whitespace
ParseStartValue(w) ==
    IF EndOfInput(w)
    THEN Throw(w, JSONException(
                      "The content string contains only whitespace"))
    ELSE ParseStartTyped(Enter(w, "ParseInitialValue"),
                         DetermineValueType(Enter(w, "ParseInitialValue")))

ParseStart(self, content, ub) ==
    IF content = <<>>
    THEN Throw(Enter(BeginCall(self, content, ub), "Parse"),
               JSONException("The content string is empty"))
    ELSE ParseStartValue(ConsumeWhitespace(
             Enter(BeginCall(self, content, ub), "Parse")))

\* the driving loop is over
ParseLoopDone(ps) == Threw(ps) \/ ps.composite_context = <<>>

\* the return of ParseCompositeValue and the check that follows it in
\* ParseInitialValue
ParseFinishLoop(ps) ==
    IF Top(ps) # "ParseCompositeValue" \/ Threw(ps) THEN
        IF Top(ps) = "ParseCompositeValue" THEN Leave(ps) ELSE ps
    ELSE IF ps.composite_context # <<>>
    THEN Throw(Leave(ps), JSONException("Error parsing composite type"))
    ELSE [Leave(ps) EXCEPT !.ret = ps.root]

\* the return of ParseInitialValue and the rest of Parse
ParseFinishValue(v) ==
    IF Top(v) # "ParseInitialValue" THEN v
    ELSE IF Threw(v) THEN Leave(v)
    ELSE ParseTrailing(ConsumeWhitespace(Leave(v)))

ParseFinish(ps) ==
    LET Return(r) == [r EXCEPT !.ret = IF Threw(r) THEN NoValue ELSE @]
    IN  Return(EndCall(Leave(ParseFinishValue(ParseFinishLoop(ps)))))

(***************************************************************************)
(* JSONFormatter.  An instance is a record like the parser's, with the     *)
(* output stream o, the configuration (indention, allman_style) and the    *)
(* current_indention that the constructor sets to 0.                       *)
(***************************************************************************)
JSONFormatter(indention, allman_style) ==
    [o |-> <<>>, indention |-> indention, current_indention |-> 0,
     allman_style |-> allman_style,
     content |-> <<>>, p |-> 1, line |-> 0, column |-> 0,
     composite_context |-> <<>>, root |-> NoValue,
     err |-> NoError, ret |-> <<>>,
     callstack |-> <<>>, maxdepth |-> 0, maxframes |-> 0,
     reentered |-> FALSE, ub |-> "crash"]

\* ParsingErrorString of json_formatter.cpp
FormatterParsingErrorString(line, column, text) ==
    <<"JSON parsing error at line ", line, ", column ", column, ": ", text>>

\* *o << octets
Emit(fs, octets) == [fs EXCEPT !.o = @ \o octets]

\* std::endl
Endl == <<10>>

ProduceNoIndentation(fs) == fs

\* JSONFormatter::ProduceIndentation
ProduceIndentation(fs) == Emit(fs, Spaces(fs.current_indention))

\* JSONFormatter::ConsumeWhitespace
RECURSIVE FormatterConsumeWhitespace(_)
FormatterConsumeWhitespace(fs) ==
    IF Threw(fs) \/ EndOfInput(fs) THEN fs
    ELSE IF Cur(fs) \in {Ord[" "], Ord["\r"], Ord["\t"]}
    THEN FormatterConsumeWhitespace(AdvanceReadPosition(fs, 1))
    ELSE IF Cur(fs) = Ord["\n"]
    THEN FormatterConsumeWhitespace(
             [AdvanceReadPosition(fs, 1) EXCEPT !.column = 0])
    ELSE fs

\* JSONFormatter::DetermineValueType (the type is left in .ret)
FormatterDetermineValueType(fs) ==
    IF Threw(fs) THEN fs
    ELSE IF EndOfInput(fs)
    THEN Throw(fs, FormatterParsingErrorString(fs.line, fs.column,
                                      "Incomplete JSON text"))
    ELSE LET c == Cur(fs) IN
         CASE c = Ord["\""] -> [fs EXCEPT !.ret = "String"]
           [] c = Ord["["] -> [fs EXCEPT !.ret = "Array"]
           [] c = Ord["{"] -> [fs EXCEPT !.ret = "Object"]
           [] c \in {Ord["t"], Ord["f"], Ord["n"]} ->
                [fs EXCEPT !.ret = "Literal"]
           [] c = Ord["-"] -> [fs EXCEPT !.ret = "Number"]
           [] OTHER ->
                IF IsDigit(c) THEN [fs EXCEPT !.ret = "Number"]
                ELSE Throw(fs, FormatterParsingErrorString(fs.line, fs.column,
                                                  "Unknown value type"))

\* the loop of JSONFormatter::PrintString; the escape branch writes *p and
\* continues without advancing the read position
RECURSIVE PrintStringLoop(_, _)
PrintStringLoop(fs, handle_escape) ==
    IF EndOfInput(fs) THEN [fs |-> fs, close_quote |-> FALSE]
    ELSE IF Cur(fs) < 32
    THEN [fs |-> Throw(fs, FormatterParsingErrorString(fs.line, fs.column,
                           "Illegal control character in string")),
          close_quote |-> FALSE]
    ELSE IF handle_escape
    THEN PrintStringLoop(Emit(fs, <<Cur(fs)>>), FALSE)
    ELSE IF Cur(fs) = Ord["\""]
    THEN [fs |-> AdvanceReadPosition(Emit(fs, <<Ord["\""]>>), 1),
          close_quote |-> TRUE]
    ELSE IF Cur(fs) = Ord["\\"]
    THEN PrintStringLoop(AdvanceReadPosition(Emit(fs, <<Ord["\\"]>>), 1),
                         TRUE)
    ELSE PrintStringLoop(AdvanceReadPosition(Emit(fs, <<Cur(fs)>>), 1), FALSE)

PrintString(fs0) ==
    LET Closed(r) ==
            IF Threw(r.fs) THEN r.fs
            ELSE IF ~r.close_quote
            THEN Throw(r.fs, FormatterParsingErrorString(r.fs.line,
                                 r.fs.column,
                                 "No closing quote parsing string"))
            ELSE r.fs
        Body(fs) ==
            IF EndOfInput(fs)
            THEN Throw(fs, FormatterParsingErrorString(fs.line, fs.column,
                                                       "Incomplete JSON text"))
            ELSE IF Cur(fs) # Ord["\""]
            THEN Throw(fs, FormatterParsingErrorString(fs.line, fs.column,
                               "Expected leading quote mark"))
            ELSE Closed(PrintStringLoop(
                     AdvanceReadPosition(Emit(fs, <<Ord["\""]>>), 1), FALSE))
    IN  Leave(Body(Enter(fs0, "PrintString")))

\* the state machine of JSONFormatter::PrintNumber
RECURSIVE PrintNumberLoop(_, _, _)
PrintNumberLoop(fs, state, valid_number) ==
    LET done == [fs |-> fs, valid_number |-> valid_number]
        Take(next, valid) ==
            PrintNumberLoop(AdvanceReadPosition(Emit(fs, <<Cur(fs)>>), 1),
                            next, valid)
        invalid ==
            [fs |-> Throw(fs, FormatterParsingErrorString(fs.line, fs.column,
                                                          "Invalid number")),
             valid_number |-> FALSE]
    IN
    IF EndOfInput(fs) THEN done
    ELSE
    CASE state = "Sign" ->
           IF Cur(fs) = Ord["-"] THEN Take("Integer", valid_number)
           ELSE IF IsDigit(Cur(fs))
           THEN PrintNumberLoop(fs, "Integer", valid_number)
           ELSE done
      [] state = "Integer" ->
           IF IsDigit(Cur(fs)) THEN Take("Integer", TRUE)
           ELSE IF Cur(fs) = Ord["."]
           THEN IF ~valid_number THEN invalid ELSE Take("Float", FALSE)
           ELSE IF Cur(fs) \in {Ord["e"], Ord["E"]}
           THEN IF ~valid_number THEN invalid
                ELSE Take("ExponentSign", FALSE)
           ELSE done
      [] state = "Float" ->
           IF IsDigit(Cur(fs)) THEN Take("Float", TRUE)
           ELSE IF Cur(fs) \in {Ord["e"], Ord["E"]}
           THEN IF ~valid_number THEN invalid
                ELSE Take("ExponentSign", FALSE)
           ELSE done
      [] state = "ExponentSign" ->
           IF Cur(fs) \in {Ord["-"], Ord["+"]}
           THEN Take("Exponent", valid_number)
           ELSE IF IsDigit(Cur(fs))
           THEN PrintNumberLoop(fs, "Exponent", valid_number)
           ELSE done
      [] OTHER ->
           IF IsDigit(Cur(fs)) THEN Take("Exponent", TRUE) ELSE done

PrintNumber(fs0) ==
    LET Done(r) ==
            IF Threw(r.fs) THEN r.fs
            ELSE IF ~r.valid_number
            THEN Throw(r.fs, FormatterParsingErrorString(r.fs.line,
                                 r.fs.column, "Invalid number"))
            ELSE r.fs
        Body(fs) ==
            IF EndOfInput(fs)
            THEN Throw(fs, FormatterParsingErrorString(fs.line, fs.column,
                               "Incomplete JSON number"))
            ELSE Done(PrintNumberLoop(fs, "Sign", FALSE))
    IN  Leave(Body(Enter(fs0, "PrintNumber")))

PrintLiteral(fs0) ==
    LET \* *o << "word"; AdvanceReadPosition(length of the word)
        Word(fs, w) ==
            [fs EXCEPT !.p = @ + Len(w), !.column = @ + Len(w),
                       !.o = @ \o w]
        Body(fs) ==
            IF EndOfInput(fs)
            THEN Throw(fs, FormatterParsingErrorString(fs.line, fs.column,
                                                       "Incomplete JSON text"))
            ELSE IF LooksAt(fs, T(<<"f", "a", "l", "s", "e">>))
            THEN Word(fs, T(<<"f", "a", "l", "s", "e">>))
            ELSE IF LooksAt(fs, T(<<"t", "r", "u", "e">>))
            THEN Word(fs, T(<<"t", "r", "u", "e">>))
            ELSE IF LooksAt(fs, T(<<"n", "u", "l", "l">>))
            THEN Word(fs, T(<<"n", "u", "l", "l">>))
            ELSE Throw(fs, FormatterParsingErrorString(fs.line, fs.column,
                                                       "Unknown JSON literal"))
    IN  Leave(Body(Enter(fs0, "PrintLiteral")))

PrintPrimitiveValue(fs0, value_type) ==
    LET Body(fs) ==
            CASE value_type = "String" -> PrintString(fs)
              [] value_type = "Number" -> PrintNumber(fs)
              [] value_type = "Literal" -> PrintLiteral(fs)
              [] value_type \in {"Object", "Array"} ->
                   Throw(fs, JSONException("Unexpected composite type"))
              [] OTHER ->
                   Throw(fs, JSONException("Unknown value type provided"))
    IN  Leave(Body(Enter(fs0, "PrintPrimitiveValue")))

(***************************************************************************)
(* JSONFormatter::PrintObject                                              *)
(***************************************************************************)
\* the key under which PrintObject stores every nested composite: u8""
PlaceholderKey == <<>>

PrintObjectValueSameLine(ms, vt) ==
    IF Threw(vt) THEN Flow(vt, "throw")
    ELSE IF vt.ret \in {"Object", "Array"}
    THEN Flow(PushFrame(SetBackValue(Emit(ms, <<Ord[":"], Ord[" "]>>),
                  JSONObject(MapAssign(BackValue(ms).members, <<>>,
                                       IF vt.ret = "Object"
                                       THEN JSONObject(EmptyMap)
                                       ELSE JSONArray(<<>>)))),
              KeyStep(<<>>)), "return")
    ELSE IF Threw(PrintPrimitiveValue(Emit(ms, <<Ord[":"], Ord[" "]>>),
                                      vt.ret))
    THEN Flow(PrintPrimitiveValue(Emit(ms, <<Ord[":"], Ord[" "]>>), vt.ret),
              "throw")
    ELSE Flow(PrintPrimitiveValue(Emit(ms, <<Ord[":"], Ord[" "]>>), vt.ret),
              "continue")

\* the colon, and the switch on the type of the member's value.  In Allman
\* style a composite value starts on a new line.
PrintObjectValue(ms, vt) ==
    LET Printed(pv) ==
            IF Threw(pv) THEN Flow(pv, "throw") ELSE Flow(pv, "continue")
        Nested(sep) ==
            Flow(PushFrame(SetBackValue(sep,
                     JSONObject(MapAssign(BackValue(sep).members,
                                          PlaceholderKey,
                                          IF vt.ret = "Object"
                                          THEN JSONObject(EmptyMap)
                                          ELSE JSONArray(<<>>)))),
                 KeyStep(PlaceholderKey)), "return")
    IN  IF Threw(vt) THEN Flow(vt, "throw")
        ELSE IF vt.ret \in {"Object", "Array"}
        THEN Nested(IF ms.allman_style
                   THEN ProduceIndentation(Emit(ms, <<Ord[":"]>> \o Endl))
                   ELSE Emit(ms, <<Ord[":"], Ord[" "]>>))
        ELSE Printed(PrintPrimitiveValue(
                         Emit(ms, <<Ord[":"], Ord[" "]>>), vt.ret))

\* from the printed name ks to the value: the colon and the whitespace
\* around it; member_seen = true
PrintObjectColon(ks) ==
    LET AfterColon(w2) ==
            IF EndOfInput(w2) THEN Flow(w2, "break")
            ELSE Flow(SetBackFlag(w2, "member_seen"), "continue")
        Colon(w1) ==
            IF EndOfInput(w1) THEN Flow(w1, "break")
            ELSE IF Cur(w1) # Ord[":"]
            THEN Flow(Throw(w1, FormatterParsingErrorString(w1.line,
                                    w1.column, "Expected a string")),
                      "throw")
            ELSE AfterColon(FormatterConsumeWhitespace(
                                AdvanceReadPosition(w1, 1)))
    IN  IF Threw(ks) THEN Flow(ks, "throw")
        ELSE Colon(FormatterConsumeWhitespace(ks))

\* value_type = DetermineValueType(), once the colon is behind
PrintObjectTyped(col) ==
    IF col.ctl # "continue" THEN col
    ELSE PrintObjectValue(col.ps, FormatterDetermineValueType(col.ps))

PrintObjectMemberUnnamed(sep) ==
    IF sep.ctl # "continue" THEN sep
    ELSE PrintObjectTyped(PrintObjectColon(
             [PrintString(sep.ps) EXCEPT !.o = sep.ps.o]))

\* one member, after the separator sep: the name must be a string
PrintObjectMember(sep) ==
    IF sep.ctl # "continue" THEN sep
    ELSE IF Threw(FormatterDetermineValueType(sep.ps))
    THEN Flow(FormatterDetermineValueType(sep.ps), "throw")
    ELSE IF FormatterDetermineValueType(sep.ps).ret # "String"
    THEN Flow(Throw(sep.ps, FormatterParsingErrorString(sep.ps.line,
                                sep.ps.column, "Expected a string")),
              "throw")
    ELSE PrintObjectTyped(PrintObjectColon(
             PrintString(ProduceIndentation(sep.ps))))

\* the top of the loop body, up to the member.  The closing
\* brace goes on a line of its own, one level out; a comma ends the line.
PrintObjectSeparator(ps) ==
    LET AfterComma(c) ==
            IF EndOfInput(c) THEN Flow(c, "break")
            ELSE IF Cur(c) = Ord["}"]
            THEN Flow(Throw(c, FormatterParsingErrorString(c.line, c.column,
                                   "Premature end of JSON object")), "throw")
            ELSE Flow(c, "continue")
        Body(w) ==
            IF EndOfInput(w) THEN Flow(w, "break")
            ELSE IF Cur(w) = Ord["}"]
            THEN Flow(SetBackFlag(AdvanceReadPosition(
                          Emit(ProduceIndentation(
                                   Emit([w EXCEPT !.current_indention =
                                                      @ - w.indention],
                                        Endl)),
                               <<Ord["}"]>>), 1), "closing_seen"),
                      "break")
            ELSE IF ~Back(w).member_seen THEN Flow(w, "continue")
            ELSE IF Cur(w) # Ord[","]
            THEN Flow(Throw(w, FormatterParsingErrorString(w.line, w.column, "Expected a comma")),
                      "throw")
            ELSE AfterComma(FormatterConsumeWhitespace(
                     AdvanceReadPosition(Emit(w, <<Ord[","]>> \o Endl), 1)))
    IN  Body(FormatterConsumeWhitespace(ps))

\* the member loop: while (!closing_seen && !EndOfInput())
RECURSIVE PrintObjectLoop(_)
PrintObjectLoop(ps) ==
    LET Next(m) == IF m.ctl = "continue" THEN PrintObjectLoop(m.ps) ELSE m
    IN  IF Threw(ps) THEN Flow(ps, "throw")
        ELSE IF Back(ps).closing_seen \/ EndOfInput(ps)
        THEN Flow(ps, "break")
        ELSE Next(PrintObjectMember(PrintObjectSeparator(ps)))

\* the function after its entry
PrintObjectBody(ps) ==
    LET Closed(r) ==
            IF r.ctl \in {"throw", "return"} THEN r.ps
            ELSE IF ~Back(r.ps).closing_seen
            THEN Throw(r.ps, FormatterParsingErrorString(r.ps.line, r.ps.column,
                                 "Unexpected end of JSON object"))
            ELSE r.ps
    IN  IF ps.composite_context = <<>>
        THEN Throw(ps, JSONException("Composite context unexpectedly empty"))
        ELSE IF BackType(ps) = "Crash" THEN Throw(ps, Crash)
        ELSE IF BackType(ps) # "Object"
        THEN Throw(ps, JSONException("Unexpected type in composite context"))
        ELSE IF EndOfInput(ps)
        THEN Throw(ps, FormatterParsingErrorString(ps.line, ps.column, "Incomplete JSON object"))
        ELSE IF ~Back(ps).opening_seen /\ Cur(ps) # Ord["{"]
        THEN Throw(ps, FormatterParsingErrorString(ps.line, ps.column, "Expected leading brace"))
        ELSE Closed(PrintObjectLoop(
                 IF ~Back(ps).opening_seen
                 THEN AdvanceReadPosition(SetBackFlag(
                          [Emit(ps, <<Ord["{"]>> \o Endl)
                              EXCEPT !.current_indention = @ + ps.indention],
                          "opening_seen"), 1)
                 ELSE ps))

PrintObject(ps0) == Leave(PrintObjectBody(Enter(ps0, "PrintObject")))

(***************************************************************************)
(* JSONFormatter::PrintArray                                               *)
(***************************************************************************)
\* the switch on the type of the item
PrintArrayValue(ms, vt) ==
    LET Printed(pv) ==
            IF Threw(pv) THEN Flow(pv, "throw") ELSE Flow(pv, "continue")
    IN  IF Threw(vt) THEN Flow(vt, "throw")
        ELSE IF vt.ret \in {"Object", "Array"}
        THEN Flow(PushFrame(SetBackValue(ms,
                      JSONArray(Append(BackValue(ms).items,
                                       IF vt.ret = "Object"
                                       THEN JSONObject(EmptyMap)
                                       ELSE JSONArray(<<>>)))),
                  IdxStep(Len(BackValue(ms).items) + 1)), "return")
        ELSE Printed(PrintPrimitiveValue(ms, vt.ret))

\* one item, after the separator sep: member_seen = true;
\* ProduceIndentation(); value_type = DetermineValueType()
PrintArrayMember(sep) ==
    IF sep.ctl # "continue" THEN sep
    ELSE PrintArrayValue(
             ProduceIndentation(SetBackFlag(sep.ps, "member_seen")),
             FormatterDetermineValueType(
                 ProduceIndentation(SetBackFlag(sep.ps, "member_seen"))))

\* the top of the loop body, up to the member.  The closing
\* bracket goes on a line of its own, one level out; a comma ends the line.
PrintArraySeparator(ps) ==
    LET AfterComma(c) ==
            IF EndOfInput(c) THEN Flow(c, "break")
            ELSE IF Cur(c) = Ord["]"]
            THEN Flow(Throw(c, FormatterParsingErrorString(c.line, c.column,
                                   "Premature end of JSON array")), "throw")
            ELSE Flow(c, "continue")
        Body(w) ==
            IF EndOfInput(w) THEN Flow(w, "break")
            ELSE IF Cur(w) = Ord["]"]
            THEN Flow(SetBackFlag(AdvanceReadPosition(
                          Emit(ProduceIndentation(
                                   Emit([w EXCEPT !.current_indention =
                                                      @ - w.indention],
                                        Endl)),
                               <<Ord["]"]>>), 1), "closing_seen"),
                      "break")
            ELSE IF ~Back(w).member_seen THEN Flow(w, "continue")
            ELSE IF Cur(w) # Ord[","]
            THEN Flow(Throw(w, FormatterParsingErrorString(w.line, w.column, "Expected a comma")),
                      "throw")
            ELSE AfterComma(FormatterConsumeWhitespace(
                     AdvanceReadPosition(Emit(w, <<Ord[","]>> \o Endl), 1)))
    IN  Body(FormatterConsumeWhitespace(ps))

\* the member loop: while (!closing_seen && !EndOfInput())
RECURSIVE PrintArrayLoop(_)
PrintArrayLoop(ps) ==
    LET Next(m) == IF m.ctl = "continue" THEN PrintArrayLoop(m.ps) ELSE m
    IN  IF Threw(ps) THEN Flow(ps, "throw")
        ELSE IF Back(ps).closing_seen \/ EndOfInput(ps)
        THEN Flow(ps, "break")
        ELSE Next(PrintArrayMember(PrintArraySeparator(ps)))

\* the function after its entry
PrintArrayBody(ps) ==
    LET Closed(r) ==
            IF r.ctl \in {"throw", "return"} THEN r.ps
            ELSE IF ~Back(r.ps).closing_seen
            THEN Throw(r.ps, FormatterParsingErrorString(r.ps.line, r.ps.column,
                                 "Unexpected end of JSON array"))
            ELSE r.ps
    IN  IF ps.composite_context = <<>>
        THEN Throw(ps, JSONException("Composite context unexpectedly empty"))
        ELSE IF BackType(ps) = "Crash" THEN Throw(ps, Crash)
        ELSE IF BackType(ps) # "Array"
        THEN Throw(ps, JSONException("Unexpected type in composite context"))
        ELSE IF EndOfInput(ps)
        THEN Throw(ps, FormatterParsingErrorString(ps.line, ps.column, "Incomplete JSON array"))
        ELSE IF ~Back(ps).opening_seen /\ Cur(ps) # Ord["["]
        THEN Throw(ps, FormatterParsingErrorString(ps.line, ps.column, "Expected leading bracket"))
        ELSE Closed(PrintArrayLoop(
                 IF ~Back(ps).opening_seen
                 THEN AdvanceReadPosition(SetBackFlag(
                          [Emit(ps, <<Ord["["]>> \o Endl)
                              EXCEPT !.current_indention = @ + ps.indention],
                          "opening_seen"), 1)
                 ELSE ps))

PrintArray(ps0) == Leave(PrintArrayBody(Enter(ps0, "PrintArray")))

(***************************************************************************)
(* JSONFormatter::PrintCompositeValue, the driving loop.                      *)
(***************************************************************************)
\* one iteration of while (!composite_context.empty())
PrintCompositeStep(ps) ==
    CASE BackType(ps) = "Crash" -> Throw(ps, Crash)
      [] BackType(ps) = "Object" -> PopIfClosed(PrintObject(ps))
      [] BackType(ps) = "Array" -> PopIfClosed(PrintArray(ps))
      [] OTHER ->
           Throw(ps, JSONException("Unexpected type in composite context"))

RECURSIVE PrintCompositeLoop(_)
PrintCompositeLoop(ps) ==
    IF Threw(ps) \/ ps.composite_context = <<>> THEN ps
    ELSE PrintCompositeLoop(PrintCompositeStep(ps))

PrintCompositeValue(ps0) ==
    Leave(IF ps0.composite_context = <<>>
          THEN Throw(Enter(ps0, "PrintCompositeValue"),
                     JSONException("Composite context unexpectedly empty"))
          ELSE PrintCompositeLoop(Enter(ps0, "PrintCompositeValue")))

(***************************************************************************)
(* JSONFormatter::PrintInitialValue.  The root Object/Array is a local of     *)
(* this function; the frame pushed for it points at that local.            *)
(***************************************************************************)
\* the function after its entry, with the type of the top-level value
PrintInitialBody(ps, vt) ==
    LET Return(r) ==
            IF Threw(r) THEN r
            ELSE IF r.composite_context # <<>>
            THEN Throw(r, JSONException("Error printing composite type"))
            ELSE r
    IN  IF Threw(vt) THEN vt
        ELSE IF vt.ret \in {"Object", "Array"}
        THEN Return(PrintCompositeValue(
                        PushRoot(ps, IF vt.ret = "Object"
                                     THEN JSONObject(EmptyMap)
                                     ELSE JSONArray(<<>>))))
        ELSE PrintPrimitiveValue(ps, vt.ret)

PrintInitialValue(ps0) ==
    Leave(PrintInitialBody(Enter(ps0, "PrintInitialValue"),
                           FormatterDetermineValueType(Enter(ps0, "PrintInitialValue"))))

\* after the trailing whitespace: nothing may follow the value
PrintTrailing(t) ==
    IF ~EndOfInput(t)
    THEN Throw(t, FormatterParsingErrorString(t.line, t.column, "Unexpected character"))
    ELSE t

\* the call from the leading whitespace on
PrintBody(w) ==
    LET Value(v) == IF Threw(v) THEN v ELSE PrintTrailing(FormatterConsumeWhitespace(v))
    IN  IF EndOfInput(w)
        THEN Throw(w, JSONException(
                          "The content string contains only whitespace"))
        ELSE Value(PrintInitialValue(w))

(***************************************************************************)
(* std::string JSONFormatter::Print(std::u8string_view) on the instance    *)
(* self: the text written to a local stream is returned (in .ret) unless   *)
(* the call throws.                                                        *)
(***************************************************************************)
PrintContent(self, content, ub) ==
    LET Return(fs) == [fs EXCEPT !.ret = IF Threw(fs) THEN <<>> ELSE fs.o]
    IN  Return(EndCall(Leave(
            IF content = <<>>
            THEN Throw(Enter(BeginCall(self, content, ub), "Print"),
                       JSONException("The content string is empty"))
            ELSE PrintBody(FormatterConsumeWhitespace(
                     Enter([BeginCall(self, content, ub) EXCEPT !.o = <<>>],
                           "Print"))))))

\* Print cut at the iterations of the driving loop, like Parse
PrintStartTyped(ps, vt) ==
    IF Threw(vt) THEN vt
    ELSE IF vt.ret \in {"Object", "Array"}
    THEN Enter(PushRoot(ps, IF vt.ret = "Object" THEN JSONObject(EmptyMap)
                            ELSE JSONArray(<<>>)),
               "PrintCompositeValue")
    ELSE PrintPrimitiveValue(ps, vt.ret)

PrintStartValue(w) ==
    IF EndOfInput(w)
    THEN Throw(w, JSONException(
                      "The content string contains only whitespace"))
    ELSE PrintStartTyped(Enter(w, "PrintInitialValue"),
                         FormatterDetermineValueType(
                             Enter(w, "PrintInitialValue")))

PrintStart(self, content, ub) ==
    IF content = <<>>
    THEN Throw(Enter(BeginCall(self, content, ub), "Print"),
               JSONException("The content string is empty"))
    ELSE PrintStartValue(FormatterConsumeWhitespace(
             Enter([BeginCall(self, content, ub) EXCEPT !.o = <<>>],
                   "Print")))

PrintFinishLoop(ps) ==
    IF Top(ps) # "PrintCompositeValue" \/ Threw(ps) THEN
        IF Top(ps) = "PrintCompositeValue" THEN Leave(ps) ELSE ps
    ELSE IF ps.composite_context # <<>>
    THEN Throw(Leave(ps), JSONException("Error printing composite type"))
    ELSE Leave(ps)

PrintFinishValue(v) ==
    IF Top(v) # "PrintInitialValue" THEN v
    ELSE IF Threw(v) THEN Leave(v)
    ELSE PrintTrailing(FormatterConsumeWhitespace(Leave(v)))

PrintFinish(ps) ==
    LET Return(fs) == [fs EXCEPT !.ret = IF Threw(fs) THEN <<>> ELSE fs.o]
    IN  Return(EndCall(Leave(PrintFinishValue(PrintFinishLoop(ps)))))

\* std::string JSONFormatter::Print(const JSON &): serialise, then reformat
PrintJSON(self, json, ub) ==
    LET Reformat(stream) ==
            IF stream.err # NoError
            THEN [self EXCEPT !.err = stream.err, !.ret = <<>>]
            ELSE PrintContent(self, stream.out, ub)
    IN  Reformat(ToString(json))

(***************************************************************************)
(* The grammar of RFC 8259, as a recogniser independent of the parser.     *)
(* Each operator returns the index after the construct starting at index   *)
(* i of the text s, or 0 if no such construct starts there.                *)
(***************************************************************************)
RECURSIVE RFCWs(_, _)
RFCWs(s, i) ==
    IF i <= Len(s) /\ s[i] \in {Ord[" "], Ord["\t"], Ord["\n"], Ord["\r"]}
    THEN RFCWs(s, i + 1)
    ELSE i

RECURSIVE RFCDigits(_, _)
RFCDigits(s, i) ==
    IF i <= Len(s) /\ IsDigit(s[i]) THEN RFCDigits(s, i + 1) ELSE i

RFCIsHex(c) ==
    \/ IsDigit(c)
    \/ c >= Ord["a"] /\ c <= Ord["f"]
    \/ c >= Ord["A"] /\ c <= Ord["F"]

\* number = [ minus ] int [ frac ] [ exp ]
RFCNumber(s, i) ==
    LET a == IF i <= Len(s) /\ s[i] = Ord["-"] THEN i + 1 ELSE i
        int == IF a > Len(s) THEN 0
               ELSE IF s[a] = Ord["0"] THEN a + 1
               ELSE IF IsDigit(s[a]) THEN RFCDigits(s, a)
               ELSE 0
        frac == IF int = 0 THEN 0
                ELSE IF int <= Len(s) /\ s[int] = Ord["."]
                THEN IF RFCDigits(s, int + 1) = int + 1 THEN 0
                     ELSE RFCDigits(s, int + 1)
                ELSE int
    IN  IF frac = 0 THEN 0
        ELSE IF frac <= Len(s) /\ s[frac] \in {Ord["e"], Ord["E"]}
        THEN LET b == IF frac + 1 <= Len(s)
                         /\ s[frac + 1] \in {Ord["-"], Ord["+"]}
                      THEN frac + 2 ELSE frac + 1
             IN  IF RFCDigits(s, b) = b THEN 0 ELSE RFCDigits(s, b)
        ELSE frac

\* the characters of a string after its opening quotation mark
RECURSIVE RFCChars(_, _)
RFCChars(s, i) ==
    IF i > Len(s) THEN 0
    ELSE IF s[i] = Ord["\""] THEN i + 1
    ELSE IF s[i] < 32 THEN 0
    ELSE IF s[i] = Ord["\\"]
    THEN IF i + 1 > Len(s) THEN 0
         ELSE IF s[i + 1] \in {Ord["\""], Ord["\\"], Ord["/"], Ord["b"],
                               Ord["f"], Ord["n"], Ord["r"], Ord["t"]}
         THEN RFCChars(s, i + 2)
         ELSE IF s[i + 1] = Ord["u"] /\ i + 5 <= Len(s)
                 /\ \A k \in 2..5 : RFCIsHex(s[i + k])
         THEN RFCChars(s, i + 6)
         ELSE 0
    ELSE RFCChars(s, i + 1)

RFCWord(s, i, word) ==
    IF i + Len(word) - 1 <= Len(s)
       /\ \A k \in 1..Len(word) : s[i + k - 1] = word[k]
    THEN i + Len(word)
    ELSE 0

RECURSIVE RFCValue(_, _)
RECURSIVE RFCElements(_, _)
RECURSIVE RFCMembers(_, _)

RFCValue(s, i) ==
    IF i > Len(s) THEN 0
    ELSE CASE s[i] = Ord["\""] -> RFCChars(s, i + 1)
           [] s[i] = Ord["["] ->
                LET j == RFCWs(s, i + 1) IN
                IF j <= Len(s) /\ s[j] = Ord["]"] THEN j + 1
                ELSE RFCElements(s, j)
           [] s[i] = Ord["{"] ->
                LET j == RFCWs(s, i + 1) IN
                IF j <= Len(s) /\ s[j] = Ord["}"] THEN j + 1
                ELSE RFCMembers(s, j)
           [] s[i] = Ord["t"] -> RFCWord(s, i, T(<<"t", "r", "u", "e">>))
           [] s[i] = Ord["f"] -> RFCWord(s, i, T(<<"f", "a", "l", "s", "e">>))
           [] s[i] = Ord["n"] -> RFCWord(s, i, T(<<"n", "u", "l", "l">>))
           [] OTHER -> RFCNumber(s, i)

\* value *( value-separator value ) end-array
RFCElements(s, i) ==
    LET v == RFCValue(s, i)
        j == RFCWs(s, v)
    IN  IF v = 0 \/ j > Len(s) THEN 0
        ELSE IF s[j] = Ord[","] THEN RFCElements(s, RFCWs(s, j + 1))
        ELSE IF s[j] = Ord["]"] THEN j + 1
        ELSE 0

\* member *( value-separator member ) end-object
RFCMembers(s, i) ==
    IF i > Len(s) \/ s[i] # Ord["\""] THEN 0
    ELSE
    LET k == RFCChars(s, i + 1)
        c == RFCWs(s, k)
    IN  IF k = 0 \/ c > Len(s) \/ s[c] # Ord[":"] THEN 0
        ELSE
        LET v == RFCValue(s, RFCWs(s, c + 1))
            j == RFCWs(s, v)
        IN  IF v = 0 \/ j > Len(s) THEN 0
            ELSE IF s[j] = Ord[","] THEN RFCMembers(s, RFCWs(s, j + 1))
            ELSE IF s[j] = Ord["}"] THEN j + 1
            ELSE 0

\* JSON-text = ws value ws
IsJSONText(s) ==
    LET v == RFCValue(s, RFCWs(s, 1)) IN
    v # 0 /\ RFCWs(s, v) = Len(s) + 1


(***************************************************************************)
(* Inputs.  A text is drawn from one of five families; doc records how it  *)
(* was built, so that properties can refer to the structure of the text    *)
(* without going through the parser.                                       *)
(***************************************************************************)
MaxLen == 3
MaxMembers == 2
MaxWrap == 2
MaxNest == 4
MaxCalls == 2
MaxUnits == 2
MaxBytes == 2

\* (1) every text of up to MaxLen octets over Alphabet
Alphabet == {Ord["0"], Ord["1"], Ord["-"], Ord["."], Ord["e"],
             Ord["["], Ord["]"], Ord["\""]}

RECURSIVE TextsOfLen(_)
TextsOfLen(n) ==
    IF n = 0 THEN {<<>>}
    ELSE {Append(t, c) : t \in TextsOfLen(n - 1), c \in Alphabet}

ShortTexts == UNION {TextsOfLen(n) : n \in 0..MaxLen}

\* (2) a value between leading and trailing text
Leads == {<<>>, T(<<" ">>), T(<<"\n">>), T(<<"\t", "\r", "\n", " ">>)}

Tops == {T(<<"1">>), T(<<"-", "1", ".", "5", "e", "1">>),
         T(<<"\"", "a", "\"">>), T(<<"t", "r", "u", "e">>),
         T(<<"n", "u", "l", "l">>), T(<<"[", "]">>), T(<<"{", "}">>),
         T(<<"[", "1", ",", "f", "a", "l", "s", "e", "]">>),
         T(<<"{", "\"", "a", "\"", ":", "[", "1", "]", "}">>)}

Trails == {<<>>, T(<<" ">>), T(<<"\n">>), T(<<"x">>), T(<<",">>),
           T(<<"]">>), T(<<"}">>), T(<<" ", "1">>), T(<<"\n", "\"">>)}

\* (3) an Object of up to MaxMembers members, whose keys are written plainly
\* or with an escape, wrapped in up to MaxWrap further containers
KeyForms ==
    {[text |-> T(<<"\"", "a", "\"">>), decoded |-> T(<<"a">>)],
     [text |-> T(<<"\"", "b", "\"">>), decoded |-> T(<<"b">>)],
     [text |-> T(<<"\"", "\\", "u", "0", "0", "6", "1", "\"">>),
      decoded |-> T(<<"a">>)]}

Wrappers == {"item", "member", "pair"}

Trees ==
    [obj : UNION {[1..n -> KeyForms] : n \in 0..MaxMembers},
     wrap : UNION {[1..n -> Wrappers] : n \in 0..MaxWrap}]

NoTree == [obj |-> <<>>, wrap |-> <<>>]

\* the i-th member has the value i
RECURSIVE RenderMembers(_, _)
RenderMembers(obj, i) ==
    IF i > Len(obj) THEN <<>>
    ELSE (IF i > 1 THEN T(<<",">>) ELSE <<>>)
         \o obj[i].text \o T(<<":">>) \o <<Ord["0"] + i>>
         \o RenderMembers(obj, i + 1)

RECURSIVE RenderWrap(_, _)
RenderWrap(text, wrap) ==
    IF wrap = <<>> THEN text
    ELSE RenderWrap(
             CASE Head(wrap) = "item" -> T(<<"[">>) \o text \o T(<<"]">>)
               [] Head(wrap) = "member" ->
                    T(<<"{", "\"", "a", "\"", ":">>) \o text \o T(<<"}">>)
               [] OTHER ->
                    T(<<"[">>) \o text \o T(<<",">>) \o text \o T(<<"]">>),
             Tail(wrap))

Render(tree) ==
    RenderWrap(T(<<"{">>) \o RenderMembers(tree.obj, 1) \o T(<<"}">>),
               tree.wrap)

\* two members of the Object have the same key
TreeDup(tree) ==
    \E i, j \in DOMAIN tree.obj :
        i < j /\ tree.obj[i].decoded = tree.obj[j].decoded

\* the value a text without duplicate keys denotes
RECURSIVE WrapValue(_, _)
WrapValue(v, wrap) ==
    IF wrap = <<>> THEN v
    ELSE WrapValue(
             CASE Head(wrap) = "item" -> [type |-> "Array", items |-> <<v>>]
               [] Head(wrap) = "member" ->
                    [type |-> "Object",
                     members |-> [k \in {T(<<"a">>)} |-> v]]
               [] OTHER -> [type |-> "Array", items |-> <<v, v>>],
             Tail(wrap))

TreeValue(tree) ==
    WrapValue(
        [type |-> "Object",
         members |->
             [k \in {tree.obj[i].decoded : i \in DOMAIN tree.obj} |->
                 LET i == CHOOSE i \in DOMAIN tree.obj :
                              tree.obj[i].decoded = k
                 IN  [type |-> "Number", isfloat |-> FALSE, fp |-> "finite",
                      neg |-> FALSE, digits |-> <<i>>, exp |-> 0]]],
        tree.wrap)

\* (4) open brackets followed by close brackets
RECURSIVE Repeat(_, _)
Repeat(c, n) == IF n = 0 THEN <<>> ELSE <<c>> \o Repeat(c, n - 1)

Nest(open, close) == Repeat(Ord["["], open) \o Repeat(Ord["]"], close)

\* (5) texts chosen for the escapes, numbers and line breaks in them
Curated ==
    {T(<<"\"", "\\", "n", "\"">>), T(<<"\"", "\\", "\"", "\"">>),
     T(<<"\"", "\\", "\\", "\"">>), T(<<"\"", "\\", "/", "\"">>),
     T(<<"\"", "\\", "x", "\"">>), T(<<"\"", "~", "\"">>),
     T(<<"\"", "\\", "u", "0", "0", "4", "1", "\"">>),
     T(<<"\"", "\\", "u", "0", "0", "e", "9", "\"">>),
     T(<<"\"", "\\", "u", "0", "0", "4", "\"">>),
     T(<<"\"", "\\", "u", "d", "8", "0", "0", "\"">>),
     T(<<"\"", "\\", "u", "D", "8", "3", "D",
               "\\", "u", "D", "E", "0", "0", "\"">>),
     T(<<"[", "\"", "\\", "u", "0", "0", "4", "1", "\"", "]">>),
     <<34, 195, 169, 34>>, <<34, 128, 34>>, <<34, 9, 34>>,
     T(<<"2", ".", "0">>), T(<<"1", "E", "2">>), T(<<"1", "e", "+", "2">>),
     T(<<"2", "5", "e", "-", "1">>), T(<<"-", "0", ".", "0">>),
     T(<<"1", "0", "0", "0", "0", "0", ".", "0">>),
     T(<<"1", "e", "4", "0", "0">>),
     T(<<"9", "2", "2", "3", "3", "7", "2", "0", "3", "6",
         "8", "5", "4", "7", "7", "5", "8", "0", "7">>),
     T(<<"9", "2", "2", "3", "3", "7", "2", "0", "3", "6",
         "8", "5", "4", "7", "7", "5", "8", "0", "8">>),
     T(<<"[", "1", ",", " ", "2", ".", "0", "]">>),
     T(<<"[", "1", "E", "1", "]">>),
     T(<<"{", "\"", "a", "\"", ":", "\"", "\\", "n", "\"", "}">>),
     T(<<"{", "\"", "\\", "n", "\"", ":", "1", "}">>),
     T(<<"{", "\"", "a", "\"", " ", "1", "}">>),
     T(<<"{", "\"", "a", "\"", ":", "1", ",", "}">>),
     T(<<"[", "1", ",", "]">>), T(<<"[", "1", " ", "2", "]">>),
     T(<<"\n", "[", "1", " ", "2", "]">>),
     T(<<"[", "\n", "1", ",", "\n", "x", "]">>),
     T(<<"\n", "\n", "1">>), T(<<" ", "\n", " ", "t", "r", "u">>),
     T(<<"{", "\n", " ", "\"", "a", "\"", ":", "1", "\n", "}">>),
     T(<<"t", "r", "u", "e", "x">>), T(<<"n", "u", "l">>),
     T(<<"f", "a", "l", "s", "e">>)}

\* (6) a String of one or two \u escapes: code units at the edges of the
\* surrogate ranges and around them, with hex digits in either case
Unit(text, value) == [text |-> text, value |-> value]

Units ==
    {Unit(T(<<"0", "0", "0", "0">>), 0),
     Unit(T(<<"0", "0", "7", "f">>), 127),
     Unit(T(<<"0", "0", "8", "0">>), 128),
     Unit(T(<<"0", "7", "F", "F">>), 2047),
     Unit(T(<<"0", "8", "0", "0">>), 2048),
     Unit(T(<<"0", "0", "4", "1">>), 65),
     Unit(T(<<"0", "0", "e", "9">>), 233),
     Unit(T(<<"D", "7", "F", "F">>), 55295),
     Unit(T(<<"D", "8", "0", "0">>), 55296),
     Unit(T(<<"d", "8", "3", "d">>), 55357),
     Unit(T(<<"D", "b", "F", "f">>), 56319),
     Unit(T(<<"D", "C", "0", "0">>), 56320),
     Unit(T(<<"d", "E", "0", "1">>), 56833),
     Unit(T(<<"d", "f", "f", "f">>), 57343),
     Unit(T(<<"E", "0", "0", "0">>), 57344),
     Unit(T(<<"F", "F", "F", "F">>), 65535)}

UnitSeqs == UNION {[1..n -> Units] : n \in 1..MaxUnits}

RECURSIVE RenderUnits(_)
RenderUnits(units) ==
    IF units = <<>> THEN <<>>
    ELSE T(<<"\\", "u">>) \o Head(units).text \o RenderUnits(Tail(units))

UnitsGhost(units) == [kind |-> "units", units |-> units]

\* (7) a high surrogate followed by text that is no \u escape
UnpairedTexts ==
    {T(<<"\"", "\\", "u", "D", "8", "0", "0", "a", "b", "c", "d", "e", "f",
         "\"">>),
     T(<<"\"", "\\", "u", "D", "8", "3", "D", " ",
         "\\", "u", "D", "E", "0", "1", "\"">>),
     T(<<"\"", "\\", "u", "D", "8", "3", "D", "\\", "n",
         "\\", "u", "D", "E", "0", "1", "\"">>),
     T(<<"[", "\"", "\\", "u", "D", "8", "3", "D", "\"", ",",
         "\"", "\\", "u", "D", "E", "0", "1", "\"", "]">>)}

\* (8) Arrays and Objects with a comma missing between two members, a comma
\* before the first member, a comma before the closing delimiter, and a comma
\* in another place
MissingCommaTexts ==
    {T(<<"[", "1", " ", "2", "]">>),
     T(<<"[", "[", "1", "]", " ", "[", "2", "]", "]">>),
     T(<<"{", "\"", "a", "\"", ":", "1", " ", "\"", "b", "\"", ":", "2", "}">>),
     T(<<"{", "\"", "a", "\"", ":", "[", "]", " ", "\"", "b", "\"", ":", "1",
         "}">>),
     T(<<"[", "{", "}", " ", "1", "]">>),
     T(<<"[", "\"", "a", "\"", "\"", "b", "\"", "]">>),
     T(<<"[", "[", "1", "]", "[", "2", "]", "]">>)}

LeadingCommaTexts ==
    {T(<<"[", ",", "1", "]">>),
     T(<<"{", ",", "\"", "a", "\"", ":", "1", "}">>),
     T(<<"[", "[", "1", "]", ",", "[", ",", "2", "]", "]">>),
     T(<<"[", ",", "]">>)}

TrailingCommaTexts ==
    {T(<<"[", "1", ",", "]">>),
     T(<<"{", "\"", "a", "\"", ":", "1", ",", "}">>),
     T(<<"[", "[", "1", ",", "]", ",", "2", "]">>),
     T(<<"[", "[", "1", "]", ",", "]">>),
     T(<<"{", "\"", "a", "\"", ":", "{", "}", ",", "}">>)}

StrayCommaTexts ==
    {T(<<"[", "1", ",", ",", "2", "]">>),
     T(<<"{", "\"", "a", "\"", ",", ":", "1", "}">>),
     T(<<"{", "\"", "a", "\"", ":", ",", "1", "}">>),
     T(<<"1", ",">>),
     T(<<",", "1">>),
     T(<<"[", "1", "]", ",">>),
     T(<<"{", "\"", "a", "\"", ":", "1", ",", ",", "\"", "b", "\"", ":", "2",
         "}">>)}

CommaGhost(fault) == [kind |-> "commas", fault |-> fault]

\* (9) a String of one backslash followed by one character
Escaped ==
    {Ord["\""], Ord["\\"], Ord["/"], Ord["b"], Ord["f"], Ord["n"], Ord["r"],
     Ord["t"], Ord["x"], Ord["a"], Ord["e"], Ord["0"], Ord["~"], Ord[" "],
     Ord["["], Ord["B"]}

EscapeText(c) == <<Ord["\""], Ord["\\"], c, Ord["\""]>>

EscapeGhost(c) == [kind |-> "escape", char |-> c]

\* (10) a text with one raw control character inside a string: in a plain
\* run, first, right after a backslash, among the hex digits of a \u escape,
\* after a high surrogate, in a key, in an element
ControlBytes == {0, 1, 9, 10, 13, 31}

ControlPlaces == {"plain", "first", "escaped", "hex", "pair", "lowhex",
                  "key", "element"}

ControlText(place, c) ==
    CASE place = "plain" -> T(<<"\"", "a">>) \o <<c>> \o T(<<"b", "\"">>)
      [] place = "first" -> T(<<"\"">>) \o <<c>> \o T(<<"\"">>)
      [] place = "escaped" -> T(<<"\"", "\\">>) \o <<c>> \o T(<<"\"">>)
      [] place = "hex" ->
           T(<<"\"", "\\", "u", "0", "0">>) \o <<c>> \o T(<<"1", "\"">>)
      [] place = "pair" ->
           T(<<"\"", "\\", "u", "d", "8", "3", "d">>) \o <<c>>
               \o T(<<"u", "d", "c", "0", "0", "\"">>)
      [] place = "lowhex" ->
           T(<<"\"", "\\", "u", "d", "8", "3", "d", "\\", "u", "d", "c">>)
               \o <<c>> \o T(<<"0", "\"">>)
      [] place = "key" ->
           T(<<"{", "\"", "a">>) \o <<c>> \o T(<<"\"", ":", "1", "}">>)
      [] OTHER ->
           T(<<"[", "1", ",", "\"">>) \o <<c>> \o T(<<"\"", "]">>)

ControlGhost(place, c) == [kind |-> "control", place |-> place, byte |-> c]

\* (11) number tokens at the edges of the ranges of long long and double, on
\* their own or as the element of an Array; each comes with whether its value
\* fits (64-bit two's complement integer, IEEE 754 binary64) and whether it
\* is written with a fraction or an exponent
RangeCase(text, fits, float) == [text |-> text, fits |-> fits, float |-> float]

RangeCases ==
    {RangeCase(T(<<"9", "2", "2", "3", "3", "7", "2", "0", "3", "6", "8", "5", "4", "7", "7", "5", "8", "0", "7">>),
               TRUE, FALSE),
     RangeCase(T(<<"-", "9", "2", "2", "3", "3", "7", "2", "0", "3", "6", "8", "5", "4", "7", "7", "5", "8", "0", "8">>),
               TRUE, FALSE),
     RangeCase(T(<<"0">>),
               TRUE, FALSE),
     RangeCase(T(<<"-", "1">>),
               TRUE, FALSE),
     RangeCase(T(<<"9", "2", "2", "3", "3", "7", "2", "0", "3", "6", "8", "5", "4", "7", "7", "5", "8", "0", "8">>),
               FALSE, FALSE),
     RangeCase(T(<<"-", "9", "2", "2", "3", "3", "7", "2", "0", "3", "6", "8", "5", "4", "7", "7", "5", "8", "0", "9">>),
               FALSE, FALSE),
     RangeCase(T(<<"1", "0", "0", "0", "0", "0", "0", "0", "0", "0", "0", "0", "0", "0", "0", "0", "0", "0", "0", "0">>),
               FALSE, FALSE),
     RangeCase(T(<<"9", "9", "9", "9", "9", "9", "9", "9", "9", "9", "9", "9", "9", "9", "9", "9", "9", "9", "9", "9", "9", "9", "9">>),
               FALSE, FALSE),
     RangeCase(T(<<"1", "e", "3", "0", "8">>),
               TRUE, TRUE),
     RangeCase(T(<<"1", ".", "7", "9", "7", "6", "9", "3", "1", "3", "4", "8", "6", "2", "3", "1", "5", "7", "e", "3", "0", "8">>),
               TRUE, TRUE),
     RangeCase(T(<<"-", "1", "E", "3", "0", "8">>),
               TRUE, TRUE),
     RangeCase(T(<<"9", "2", "2", "3", "3", "7", "2", "0", "3", "6", "8", "5", "4", "7", "7", "5", "8", "0", "8", ".", "0">>),
               TRUE, TRUE),
     RangeCase(T(<<"1", "e", "1", "9">>),
               TRUE, TRUE),
     RangeCase(T(<<"0", ".", "0", "e", "9", "9", "9">>),
               TRUE, TRUE),
     RangeCase(T(<<"1", "e", "3", "0", "9">>),
               FALSE, TRUE),
     RangeCase(T(<<"1", ".", "8", "e", "3", "0", "8">>),
               FALSE, TRUE),
     RangeCase(T(<<"-", "1", "e", "4", "0", "0">>),
               FALSE, TRUE),
     RangeCase(T(<<"2", "E", "+", "3", "0", "8">>),
               FALSE, TRUE),
     RangeCase(T(<<"1", "e", "9", "9", "9", "9", "9", "9", "9">>),
               FALSE, TRUE),
     RangeCase(T(<<"1", "0", "0", "0", "e", "3", "0", "6">>),
               FALSE, TRUE)}

RangeGhost(case, wrapped) ==
    [kind |-> "range", fits |-> case.fits, float |-> case.float,
     wrapped |-> wrapped]

Ghost(kind, lead, top, trail, tree, open, close) ==
    [kind |-> kind, lead |-> lead, top |-> top, trail |-> trail,
     tree |-> tree, open |-> open, close |-> close]

TextGhost == Ghost("text", <<>>, <<>>, <<>>, NoTree, 0, 0)

(***************************************************************************)
VARIABLES content, doc, parser, formatter, pc, oss, second, calls,
          value, other, equal, access

vars == <<content, doc, parser, formatter, pc, oss, second, calls,
          value, other, equal, access>>

\* the text handed to the calls, drawn from the families above
InitInput ==
    \/ \E t \in ShortTexts \cup Curated \cup UnpairedTexts :
           content = t /\ doc = TextGhost
    \/ \E l \in Leads, t \in Tops, r \in Trails :
           /\ content = l \o t \o r
           /\ doc = Ghost("framed", l, t, r, NoTree, 0, 0)
    \/ \E tree \in Trees :
           /\ content = Render(tree)
           /\ doc = Ghost("tree", <<>>, <<>>, <<>>, tree, 0, 0)
    \/ \E n \in 0..MaxNest, m \in 0..MaxNest :
           /\ content = Nest(n, m)
           /\ doc = Ghost("nest", <<>>, <<>>, <<>>, NoTree, n, m)
    \/ \E units \in UnitSeqs :
           /\ content = T(<<"\"">>) \o RenderUnits(units) \o T(<<"\"">>)
           /\ doc = UnitsGhost(units)
    \/ \E t \in MissingCommaTexts : content = t /\ doc = CommaGhost("missing")
    \/ \E t \in LeadingCommaTexts : content = t /\ doc = CommaGhost("leading")
    \/ \E t \in TrailingCommaTexts :
           content = t /\ doc = CommaGhost("trailing")
    \/ \E t \in StrayCommaTexts : content = t /\ doc = CommaGhost("stray")
    \/ \E c \in Escaped : content = EscapeText(c) /\ doc = EscapeGhost(c)
    \/ \E place \in ControlPlaces, c \in ControlBytes :
           content = ControlText(place, c) /\ doc = ControlGhost(place, c)
    \/ \E case \in RangeCases, wrapped \in BOOLEAN :
           /\ content = IF wrapped
                         THEN T(<<"[">>) \o case.text \o T(<<"]">>)
                         ELSE case.text
           /\ doc = RangeGhost(case, wrapped)

\* the configurations a JSONFormatter is constructed with: the defaults, and
\* Allman style with another width
Configs == {[indention |-> 2, allman_style |-> FALSE],
            [indention |-> 3, allman_style |-> TRUE]}

\* texts for the calls made one after another on the same instance
ReuseTexts ==
    {T(<<"1">>), T(<<"[">>), T(<<"[", "1", "]">>), T(<<"{", "}">>),
     T(<<"{", "\"", "a", "\"", ":", "[">>), T(<<"[", "1", "]", "]">>),
     T(<<"x">>)}

(***************************************************************************)
(* The state: a Parser and a Formatter instance, the text handed to them,  *)
(* and the results of the calls made so far.                               *)
Init ==
    \E cfg \in Configs :
        /\ InitInput
        /\ parser = JSONParser
        /\ formatter = JSONFormatter(cfg.indention, cfg.allman_style)
        /\ pc = "init"
        /\ oss = NewStream
        /\ second = NoValue
        /\ calls = 0
        /\ value = NoValue
        /\ other = NoValue
        /\ equal = FALSE
        /\ access = NoAccess

\* parser.Parse(content)
ParseText ==
    /\ pc = "init"
    /\ \E ub \in UBOutcomes : parser' = Parse(parser, content, ub)
    /\ pc' = "Parse"
    /\ calls' = calls + 1
    /\ UNCHANGED <<content, doc, formatter, oss, second>>
    /\ UNCHANGED <<value, other, equal, access>>

\* formatter.Print(content)
PrintText ==
    /\ pc = "init"
    /\ \E ub \in UBOutcomes : formatter' = PrintContent(formatter, content, ub)
    /\ pc' = "Print"
    /\ calls' = calls + 1
    /\ UNCHANGED <<content, doc, parser, oss, second>>
    /\ UNCHANGED <<value, other, equal, access>>

\* v.ToString() for the value v that Parse returned
Serialize ==
    /\ pc = "Parse"
    /\ ~Threw(parser)
    /\ oss' = ToString(parser.ret)
    /\ pc' = "ToString"
    /\ UNCHANGED <<content, doc, parser, formatter, second, calls>>
    /\ UNCHANGED <<value, other, equal, access>>

\* Parse(v.ToString()) on a new JSONParser
Reparse ==
    /\ pc = "ToString"
    /\ oss.err = NoError
    /\ \E ub \in UBOutcomes : second' = Parse(JSONParser, oss.out, ub)
    /\ pc' = "Reparse"
    /\ UNCHANGED <<content, doc, parser, formatter, oss, calls>>
    /\ UNCHANGED <<value, other, equal, access>>

\* Print(Print(content)) on a new JSONFormatter of the same configuration
Reprint ==
    /\ pc = "Print"
    /\ ~Threw(formatter)
    /\ \E ub \in UBOutcomes :
           second' = PrintContent(JSONFormatter(formatter.indention,
                                                formatter.allman_style),
                                  formatter.ret, ub)
    /\ pc' = "Reprint"
    /\ UNCHANGED <<content, doc, parser, formatter, oss, calls>>
    /\ UNCHANGED <<value, other, equal, access>>

\* formatter.Print(v) for the value v that Parse returned
PrintValue ==
    /\ pc = "Parse"
    /\ ~Threw(parser)
    /\ \E ub \in UBOutcomes : formatter' = PrintJSON(formatter, parser.ret, ub)
    /\ pc' = "PrintJSON"
    /\ calls' = calls + 1
    /\ UNCHANGED <<content, doc, parser, oss, second>>
    /\ UNCHANGED <<value, other, equal, access>>

\* formatter.Print(content) for the text that Parse accepted
PrintParsed ==
    /\ pc = "Parse"
    /\ ~Threw(parser)
    /\ \E ub \in UBOutcomes : formatter' = PrintContent(formatter, content, ub)
    /\ pc' = "PrintParsed"
    /\ calls' = calls + 1
    /\ UNCHANGED <<content, doc, parser, oss, second>>
    /\ UNCHANGED <<value, other, equal, access>>

Next ==
    \/ ParseText
    \/ PrintText
    \/ PrintParsed
    \/ Serialize
    \/ Reparse
    \/ Reprint
    \/ PrintValue

Spec == Init /\ [][Next]_vars

(***************************************************************************)
(* Several calls on the same instances.  Each call is also made on a new   *)
(* instance of the same configuration, whose result is kept in second.     *)
(***************************************************************************)
InitReuse ==
    \E cfg \in Configs :
        /\ content = <<>>
        /\ doc = TextGhost
        /\ parser = JSONParser
        /\ formatter = JSONFormatter(cfg.indention, cfg.allman_style)
        /\ pc = "init"
        /\ oss = NewStream
        /\ second = NoValue
        /\ calls = 0
        /\ value = NoValue
        /\ other = NoValue
        /\ equal = FALSE
        /\ access = NoAccess

ParseAgain ==
    /\ calls < MaxCalls
    /\ \E c \in ReuseTexts, ub \in UBOutcomes :
           /\ content' = c
           /\ parser' = Parse(parser, c, ub)
           /\ second' = Parse(JSONParser, c, ub)
    /\ pc' = "ParseAgain"
    /\ calls' = calls + 1
    /\ UNCHANGED <<doc, formatter, oss>>
    /\ UNCHANGED <<value, other, equal, access>>

PrintAgain ==
    /\ calls < MaxCalls
    /\ \E c \in ReuseTexts, ub \in UBOutcomes :
           /\ content' = c
           /\ formatter' = PrintContent(formatter, c, ub)
           /\ second' = PrintContent(JSONFormatter(formatter.indention,
                                                   formatter.allman_style),
                                     c, ub)
    /\ pc' = "PrintAgain"
    /\ calls' = calls + 1
    /\ UNCHANGED <<doc, parser, oss>>
    /\ UNCHANGED <<value, other, equal, access>>

NextReuse ==
    \/ ParseAgain
    \/ PrintAgain

SpecReuse == InitReuse /\ [][NextReuse]_vars

(***************************************************************************)
(* Calls on different instances, interleaved.  Two JSONParsers (parser and *)
(* second) and a JSONFormatter each make one call, on the texts doc.a,     *)
(* doc.b and doc.c; a call advances by one iteration of its driving loop   *)
(* at a time, and between two iterations the other calls may advance.  pc  *)
(* holds the position of each call; equal records that a call advanced     *)
(* while another was in its loop, calls that an iteration did not advance. *)
(***************************************************************************)
StepTexts ==
    {<<>>,
     T(<<"1">>),
     T(<<"t", "r", "u">>),
     T(<<"[", "n", "u", "l">>),
     T(<<"[", "\"", "\\", "u", "0", "0">>),
     T(<<"\"", "\\", "u", "d", "8", "3", "d", "\\", "u", "0", "0">>),
     T(<<"[", "1", " ", "2", "]">>),
     T(<<"[", "[", "]">>),
     T(<<"[", "]", "]">>),
     T(<<" ", "[", " ", "]", " ">>),
     T(<<"[", "[", "\"", "[", "\"", "]", ",", "{", "\"", "]", "\"", ":",
         "2", "}", "]">>),
     T(<<"[", "[", "[", "[", "1", "]", "]", "]", "]">>),
     T(<<"{", "\"", "a", "\"", ":", "{", "\"", "a", "\"", ":", "[", "]",
         "}", "}">>),
     T(<<"{", "\"", "a", "\"", ":", "[", "1", ",", "{", "\"", "b", "\"",
         ":", "2", "}", "]", ",", "\"", "c", "\"", ":", "{", "}", "}">>),
     T(<<"[", "{", "\"", "a", "\"", ":", "1", "}", ",", "[", "[", "]",
         "]", "}">>)}

\* ub is what this build does on undefined behaviour
StepGhost(a, b, c, ub) ==
    [kind |-> "steps", a |-> a, b |-> b, c |-> c, ub |-> ub]

\* the texts of the three calls: each text with itself and with the two
\* longest ones
StepDocs ==
    LET long == T(<<"{", "\"", "a", "\"", ":", "{", "\"", "a", "\"", ":",
                    "[", "]", "}", "}">>)
        deep == T(<<"[", "[", "[", "[", "1", "]", "]", "]", "]">>)
    IN  {StepGhost(t, t, t, ub) : t \in StepTexts, ub \in UBOutcomes}
        \cup {StepGhost(t, deep, long, ub) :
                   t \in StepTexts, ub \in UBOutcomes}
        \cup {StepGhost(long, t, deep, ub) :
                   t \in StepTexts, ub \in UBOutcomes}
        \cup {StepGhost(deep, long, t, ub) :
                   t \in StepTexts, ub \in UBOutcomes}

Positions(a, b, c) == [parser |-> a, second |-> b, formatter |-> c]

InitSteps ==
    \E cfg \in Configs, d \in StepDocs :
        /\ content = <<>>
        /\ doc = d
        /\ parser = JSONParser
        /\ second = JSONParser
        /\ formatter = JSONFormatter(cfg.indention, cfg.allman_style)
        /\ pc = Positions("init", "init", "init")
        /\ oss = NewStream
        /\ calls = 0
        /\ value = NoValue
        /\ other = NoValue
        /\ equal = FALSE
        /\ access = NoAccess

\* as if line and column were static members
MembersStatic(self, sibling) ==
    [self EXCEPT !.line = sibling.line, !.column = sibling.column]

\* the data members a member function called on self works on: those of
\* self, whatever other instance exists
Members(self, sibling) == self

\* an iteration of the driving loop that took ps to next has consumed input,
\* pushed or popped a frame, or thrown
Advanced(ps, next) ==
    \/ Threw(next)
    \/ next.p > ps.p
    \/ Len(next.composite_context) # Len(ps.composite_context)

\* calls after an iteration from ps to next: 1 once an iteration has not
\* advanced
Stalled(ps, next) == IF Advanced(ps, next) THEN calls ELSE 1

\* some other call is between two iterations of its loop
Interleaves(self) ==
    \E i \in DOMAIN pc \ {self} : pc[i] = "loop"

\* parser.Parse(doc.a), up to the driving loop
ParserBegin ==
    /\ pc.parser = "init"
    /\ parser' = ParseStart(Members(parser, second), doc.a, doc.ub)
    /\ pc' = [pc EXCEPT !.parser = "loop"]
    /\ equal' = (equal \/ Interleaves("parser"))
    /\ UNCHANGED <<content, doc, formatter, oss, second, calls>>
    /\ UNCHANGED <<value, other, access>>

\* one iteration of the driving loop of parser.Parse(doc.a)
ParserStep ==
    /\ pc.parser = "loop"
    /\ ~ParseLoopDone(parser)
    /\ parser' = ParseCompositeStep(Members(parser, second))
    /\ calls' = Stalled(parser, parser')
    /\ equal' = (equal \/ Interleaves("parser"))
    /\ UNCHANGED <<content, doc, formatter, pc, oss, second>>
    /\ UNCHANGED <<value, other, access>>

\* the rest of parser.Parse(doc.a) after the driving loop
ParserEnd ==
    /\ pc.parser = "loop"
    /\ ParseLoopDone(parser)
    /\ parser' = ParseFinish(Members(parser, second))
    /\ pc' = [pc EXCEPT !.parser = "done"]
    /\ equal' = (equal \/ Interleaves("parser"))
    /\ UNCHANGED <<content, doc, formatter, oss, second, calls>>
    /\ UNCHANGED <<value, other, access>>

\* second.Parse(doc.b), up to the driving loop
SecondBegin ==
    /\ pc.second = "init"
    /\ second' = ParseStart(Members(second, parser), doc.b, doc.ub)
    /\ pc' = [pc EXCEPT !.second = "loop"]
    /\ equal' = (equal \/ Interleaves("second"))
    /\ UNCHANGED <<content, doc, parser, formatter, oss, calls>>
    /\ UNCHANGED <<value, other, access>>

SecondStep ==
    /\ pc.second = "loop"
    /\ ~ParseLoopDone(second)
    /\ second' = ParseCompositeStep(Members(second, parser))
    /\ calls' = Stalled(second, second')
    /\ equal' = (equal \/ Interleaves("second"))
    /\ UNCHANGED <<content, doc, parser, formatter, pc, oss>>
    /\ UNCHANGED <<value, other, access>>

SecondEnd ==
    /\ pc.second = "loop"
    /\ ParseLoopDone(second)
    /\ second' = ParseFinish(Members(second, parser))
    /\ pc' = [pc EXCEPT !.second = "done"]
    /\ equal' = (equal \/ Interleaves("second"))
    /\ UNCHANGED <<content, doc, parser, formatter, oss, calls>>
    /\ UNCHANGED <<value, other, access>>

\* formatter.Print(doc.c), up to the driving loop
PrinterBegin ==
    /\ pc.formatter = "init"
    /\ formatter' = PrintStart(Members(formatter, parser), doc.c, doc.ub)
    /\ pc' = [pc EXCEPT !.formatter = "loop"]
    /\ equal' = (equal \/ Interleaves("formatter"))
    /\ UNCHANGED <<content, doc, parser, oss, second, calls>>
    /\ UNCHANGED <<value, other, access>>

PrinterStep ==
    /\ pc.formatter = "loop"
    /\ ~ParseLoopDone(formatter)
    /\ formatter' = PrintCompositeStep(Members(formatter, parser))
    /\ calls' = Stalled(formatter, formatter')
    /\ equal' = (equal \/ Interleaves("formatter"))
    /\ UNCHANGED <<content, doc, parser, pc, oss, second>>
    /\ UNCHANGED <<value, other, access>>

PrinterEnd ==
    /\ pc.formatter = "loop"
    /\ ParseLoopDone(formatter)
    /\ formatter' = PrintFinish(Members(formatter, parser))
    /\ pc' = [pc EXCEPT !.formatter = "done"]
    /\ equal' = (equal \/ Interleaves("formatter"))
    /\ UNCHANGED <<content, doc, parser, oss, second, calls>>
    /\ UNCHANGED <<value, other, access>>

NextSteps ==
    \/ ParserBegin
    \/ ParserStep
    \/ ParserEnd
    \/ SecondBegin
    \/ SecondStep
    \/ SecondEnd
    \/ PrinterBegin
    \/ PrinterStep
    \/ PrinterEnd

SpecSteps == InitSteps /\ [][NextSteps]_vars

\* Each call is made by a thread that keeps running: a call that has not
\* ended takes its next step.  This is weak fairness of the steps of each
\* call, WF_vars(ParserBegin \/ ParserStep \/ ParserEnd) and so on, with
\* "the call has a step to take" written as "the call has not ended".
SpecStepsFair ==
    /\ SpecSteps
    /\ \/ []<>(pc.parser = "done")
       \/ []<><<ParserBegin \/ ParserStep \/ ParserEnd>>_vars
    /\ \/ []<>(pc.second = "done")
       \/ []<><<SecondBegin \/ SecondStep \/ SecondEnd>>_vars
    /\ \/ []<>(pc.formatter = "done")
       \/ []<><<PrinterBegin \/ PrinterStep \/ PrinterEnd>>_vars

(***************************************************************************)
(* Accessors.  A JSON and the alternative it holds are the same record, so *)
(* the accessors of JSON and those of JSONObject, JSONArray and JSONNumber *)
(* take the same argument.                                                 *)
(***************************************************************************)
\* std::out_of_range, which is not a JSONException
OutOfRange(what) == <<"std::out_of_range", what>>

\* what a reference past the end of the vector's storage refers to
Wild == [type |-> "Wild"]

\* the outcomes of reading past the end: a fault, or a reference to whatever
\* lies there
IndexOutcomes == {"crash", "other"}

\* JSONArray::operator[]: std::vector::operator[] checks no bounds
ArrayAt(array, index, ub) ==
    IF index < Len(array.items) THEN Returned(array.items[index + 1])
    ELSE IF ub = "crash" THEN Failed(Crash)
    ELSE Returned(Wild)

\* JSON::operator[](std::size_t)
JSONAt(json, index, ub) ==
    IF json.type # "Array"
    THEN Failed(JSONException("JSON object does not contain an array"))
    ELSE ArrayAt(json, index, ub)

\* JSONObject::operator[] const: std::map::at
ObjectAtConst(object, key) ==
    IF key \in DOMAIN object.members THEN Returned(object.members[key])
    ELSE Failed(OutOfRange("map::at"))

\* JSON::operator[](const std::u8string &) const
JSONAtKeyConst(json, key) ==
    IF json.type # "Object"
    THEN Failed(JSONException("JSON object does not contain an object type"))
    ELSE ObjectAtConst(json, key)

\* JSON::JSON(): AssignType(JSONValueType::Object)
DefaultJSON == JSONObject(EmptyMap)

ObjectAtReplacing(object, key) ==
    [self |-> JSONObject(MapAssign(object.members, key, DefaultJSON)),
     ret |-> DefaultJSON, err |-> NoError]

\* JSONObject::operator[]: std::map::operator[], which inserts a
\* default-constructed JSON for a key that is missing.  self is the Object
\* after the call.
ObjectAt(object, key) ==
    IF key \in DOMAIN object.members
    THEN [self |-> object, ret |-> object.members[key], err |-> NoError]
    ELSE [self |-> JSONObject(MapAssign(object.members, key, DefaultJSON)),
          ret |-> DefaultJSON, err |-> NoError]

\* JSON::operator[](const std::u8string &)
JSONAtKey(json, key) ==
    IF json.type # "Object"
    THEN [self |-> json, ret |-> NoValue,
          err |-> JSONException("JSON object does not contain an object type")]
    ELSE ObjectAt(json, key)

GetValueUnchecked(json, type) == Returned(json)

\* JSON::GetValue<T>()
GetValue(json, type) ==
    IF json.type = type THEN Returned(json)
    ELSE Failed(JSONException("JSON object contains a different value type"))

\* JSONNumber::GetFloat: the cast of an Integer is exact below 2^53, which
\* holds for every Integer built here
GetFloat(n) ==
    IF IsFloat(n) THEN Returned(n)
    ELSE IF StripLeadingZeros(n.digits) = <<>>
    THEN Returned(JSONFloat(FALSE, <<>>, 0))
    ELSE Returned(JSONFloat(n.neg,
                            SubSeq(n.digits, 1,
                                   Len(n.digits) - TrailingZeros(n.digits)),
                            TrailingZeros(n.digits)))

\* the digits before the decimal point of a finite Float of fewer than 20 of
\* them
IntegralDigits(n) ==
    IF n.exp >= 0 THEN PadRight(n.digits, Len(n.digits) + n.exp)
    ELSE SubSeq(n.digits, 1, Len(n.digits) + n.exp)

\* the truncated value fits a JSONInteger
FitsInteger(n) ==
    LET limit == IF n.neg THEN LLongMinDigits ELSE LLongMaxDigits
    IN  /\ n.fp = "finite"
        /\ Len(n.digits) + n.exp <= Len(limit)
        /\ Len(n.digits) + n.exp = Len(limit) =>
               ~DigitsLess(limit, IntegralDigits(n))

\* the outcomes of a cast whose value does not fit: the "integer indefinite"
\* value of x86, the saturated value of other processors, or a trap
CastOutcomes == {"indefinite", "saturate", "trap"}
Trap == <<"SIGILL">>

\* JSONNumber::GetInteger: static_cast<JSONInteger>(double) truncates towards
\* zero and is undefined when the truncated value does not fit
GetInteger(n, ub) ==
    IF IsInteger(n) THEN Returned(n)
    ELSE IF FitsInteger(n)
    THEN IF IntegralDigits(n) = <<>> THEN Returned(JSONInteger(FALSE, <<0>>))
         ELSE Returned(JSONInteger(n.neg, IntegralDigits(n)))
    ELSE CASE ub = "trap" -> Failed(Trap)
           [] ub = "indefinite" -> Returned(JSONInteger(TRUE, LLongMinDigits))
           [] OTHER ->
                IF n.fp = "nan" THEN Returned(JSONInteger(FALSE, <<0>>))
                ELSE IF n.neg THEN Returned(JSONInteger(TRUE, LLongMinDigits))
                ELSE Returned(JSONInteger(FALSE, LLongMaxDigits))

(***************************************************************************)
(* Values built through the constructors instead of being parsed.  A       *)
(* recipe is the expression that builds a value: a String, Number or       *)
(* Literal stands for itself, an Array recipe lists the recipes of its     *)
(* items, and an Object recipe lists its (key, recipe) pairs in the order  *)
(* of the initializer list.                                                *)
(***************************************************************************)
\* std::map::insert: a key that is present keeps its value
MapInsert(members, key, v) ==
    IF key \in DOMAIN members THEN members ELSE MapAssign(members, key, v)

\* JSONObject(initializer_list) and JSONArray(initializer_list)
RECURSIVE Build(_)
RECURSIVE BuildMembers(_, _)
BuildMembersLastOnly(pairs, members) ==
    IF pairs = <<>> THEN members
    ELSE MapInsert(EmptyMap, pairs[Len(pairs)].key,
                   Build(pairs[Len(pairs)].val))

BuildMembers(pairs, members) ==
    IF pairs = <<>> THEN members
    ELSE BuildMembers(Tail(pairs),
                      MapInsert(members, Head(pairs).key,
                                Build(Head(pairs).val)))

Build(recipe) ==
    CASE recipe.type = "Object" ->
           JSONObject(BuildMembers(recipe.pairs, EmptyMap))
      [] recipe.type = "Array" ->
           JSONArray([i \in DOMAIN recipe.items |-> Build(recipe.items[i])])
      [] OTHER -> recipe

ObjectRecipe(pairs) == [type |-> "Object", pairs |-> pairs]
ArrayRecipe(items) == [type |-> "Array", items |-> items]
Pair(key, val) == [key |-> key, val |-> val]

\* (1) Strings of up to MaxBytes octets over ByteAlphabet (an ASCII octet,
\* continuation octets, lead octets of every length, octets that are never
\* valid), and longer sequences chosen for the edges of UTF-8
ByteAlphabet == {65, 128, 191, 192, 194, 224, 237, 240, 244, 245, 255}

RECURSIVE BytesOfLen(_)
BytesOfLen(n) ==
    IF n = 0 THEN {<<>>}
    ELSE {Append(t, c) : t \in BytesOfLen(n - 1), c \in ByteAlphabet}

CuratedBytes ==
    {<<195, 169>>, <<223, 191>>, <<193, 191>>,
     <<226, 130, 172>>, <<224, 160, 128>>, <<224, 159, 191>>,
     <<224, 128, 128>>, <<237, 159, 191>>, <<237, 160, 128>>,
     <<237, 191, 191>>, <<238, 128, 128>>, <<239, 191, 191>>,
     <<226, 130>>, <<226, 130, 65>>, <<226, 65, 172>>,
     <<240, 159, 152, 129>>, <<240, 144, 128, 128>>, <<240, 143, 191, 191>>,
     <<240, 128, 128, 128>>, <<244, 143, 191, 191>>, <<244, 144, 128, 128>>,
     <<247, 191, 191, 191>>, <<245, 128, 128, 128>>, <<240, 159, 152>>,
     <<240, 159, 152, 65>>, <<248, 136, 128, 128, 128>>,
     <<65, 195, 169, 65>>, <<65, 128, 65>>, <<195, 169, 128>>,
     <<1>>, <<8>>, <<9>>, <<10>>, <<12>>, <<13>>, <<31>>, <<32>>, <<34>>,
     <<92>>, <<125>>, <<126>>, <<127>>, <<194, 128>>,
     <<65, 126, 9, 34, 226, 130, 172, 0>>}

ByteStrings == UNION {BytesOfLen(n) : n \in 0..MaxBytes} \cup CuratedBytes

\* (2) Numbers of both stored cases
NumberValues ==
    {JSONInteger(FALSE, <<2>>), JSONInteger(TRUE, <<2>>),
     JSONInteger(FALSE, <<0>>), JSONInteger(FALSE, <<3>>),
     JSONFloat(FALSE, <<2>>, 0), JSONFloat(TRUE, <<2>>, 0),
     JSONFloat(FALSE, <<2, 5>>, -1), JSONFloat(FALSE, <<>>, 0),
     JSONFloat(TRUE, <<>>, 0), JSONInteger(FALSE, <<2, 0>>),
     JSONFloat(FALSE, <<2>>, 1), JSONFloat(TRUE, <<2, 5>>, -1),
     JSONFloat(FALSE, <<1>>, 19), JSONFloat(TRUE, <<1>>, 300),
     JSONFloat(FALSE, <<5>>, -1),
     JSONFloat(TRUE, <<9, 2, 2, 3, 3, 7, 2, 0, 3, 6, 8, 5, 4, 7, 7, 5, 8, 0, 8>>, 0),
     JSONFloatNonFinite(FALSE, "nan"), JSONFloatNonFinite(FALSE, "inf"),
     JSONFloatNonFinite(TRUE, "inf")}

\* (3) a Number inside up to MaxWrap containers
RECURSIVE WrapRecipe(_, _)
WrapRecipe(r, wrap) ==
    IF wrap = <<>> THEN r
    ELSE WrapRecipe(
             CASE Head(wrap) = "item" -> ArrayRecipe(<<r>>)
               [] Head(wrap) = "member" ->
                    ObjectRecipe(<<Pair(T(<<"a">>), r)>>)
               [] OTHER ->
                    ArrayRecipe(<<JSONInteger(FALSE, <<1>>), r>>),
             Tail(wrap))

WrapSeqs == UNION {[1..n -> Wrappers] : n \in 0..MaxWrap}

\* (4) an Object of three members, one of them an Object of two members,
\* each written in some order of its pairs
Orders(n) == {f \in [1..n -> 1..n] : \A i, j \in 1..n : f[i] = f[j] => i = j}

InnerPairs ==
    <<Pair(T(<<"b">>), JSONInteger(FALSE, <<1>>)),
      Pair(T(<<"a">>), JSONFloat(FALSE, <<2, 5>>, -1))>>

OuterPairs(inner) ==
    <<Pair(T(<<"a">>), JSONInteger(FALSE, <<1>>)),
      Pair(T(<<"a", "b">>), inner),
      Pair(T(<<"b">>), JSONString(T(<<"x">>)))>>

Ordered(pairs, order) == [i \in DOMAIN pairs |-> pairs[order[i]]]

OrderedObject(outer, inner) ==
    ObjectRecipe(Ordered(OuterPairs(ObjectRecipe(Ordered(InnerPairs, inner))),
                         outer))

\* (5) containers of no, one and several members, and Literals
PlainRecipes ==
    <<ArrayRecipe(<<>>), ObjectRecipe(<<>>),
      JSONLiteral("True"), JSONLiteral("Null"),
      ArrayRecipe(<<JSONString(T(<<"x">>)), JSONLiteral("False"),
                    ArrayRecipe(<<>>)>>),
      ObjectRecipe(<<Pair(T(<<"b">>), JSONLiteral("Null")),
                     Pair(<<>>, JSONInteger(FALSE, <<7>>)),
                     Pair(T(<<"a">>), ArrayRecipe(<<JSONInteger(FALSE, <<1>>)>>))>>)>>

\* the arguments of the accessors
MaxIndex == 3
AccessKeys == {T(<<"a">>), T(<<"b">>), T(<<"c">>), <<>>}
ValueTypes == {"String", "Number", "Object", "Array", "Literal"}

BuildGhost(kind, a, b) == [kind |-> kind, a |-> a, b |-> b]

InitBuild ==
    \/ \E s \in ByteStrings :
           doc = BuildGhost("string", JSONString(s), JSONString(s))
    \/ \E n \in NumberValues, m \in NumberValues :
           doc = BuildGhost("numbers", n, m)
    \/ \E n \in NumberValues, wrap \in WrapSeqs :
           doc = BuildGhost("wrapped", WrapRecipe(n, wrap),
                            WrapRecipe(n, wrap))
    \/ \E i \in DOMAIN PlainRecipes :
           doc = BuildGhost("plain", PlainRecipes[i], PlainRecipes[i])
    \/ \E o1 \in Orders(3), i1 \in Orders(2),
          o2 \in Orders(3), i2 \in Orders(2) :
           doc = BuildGhost("orders", OrderedObject(o1, i1),
                            OrderedObject(o2, i2))

InitValue ==
    /\ InitBuild
    /\ content = <<>>
    /\ parser = JSONParser
    /\ formatter = JSONFormatter(2, FALSE)
    /\ pc = "init"
    /\ oss = NewStream
    /\ second = NewStream
    /\ calls = 0
    /\ value = NoValue
    /\ other = NoValue
    /\ equal = FALSE
    /\ access = NoAccess

\* the two values are constructed
Construct ==
    /\ pc = "init"
    /\ value' = Build(doc.a)
    /\ other' = Build(doc.b)
    /\ pc' = "Construct"
    /\ UNCHANGED <<content, doc, parser, formatter, oss, second, calls, equal,
                   access>>

\* value.ToString() and other.ToString()
SerializeBuilt ==
    /\ pc = "Construct"
    /\ oss' = ToString(value)
    /\ second' = ToString(other)
    /\ pc' = "ToStringBuilt"
    /\ UNCHANGED <<content, doc, parser, formatter, calls, value, other, equal,
                   access>>

\* value == other
CompareBuilt ==
    /\ pc \in {"Construct", "ToStringBuilt"}
    /\ equal' = JSONEq(value, other)
    /\ pc' = "Compare"
    /\ UNCHANGED <<content, doc, parser, formatter, oss, second, calls,
                   value, other, access>>

\* value[index]
IndexValue ==
    /\ pc = "Construct"
    /\ \E index \in 0..MaxIndex, ub \in IndexOutcomes :
           access' = Called("Index", index, JSONAt(value, index, ub))
    /\ pc' = "Index"
    /\ UNCHANGED <<content, doc, parser, formatter, oss, second, calls,
                   value, other, equal>>

\* value[key] on a const value
ReadKey ==
    /\ pc = "Construct"
    /\ \E key \in AccessKeys :
           access' = Called("ReadKey", key, JSONAtKeyConst(value, key))
    /\ pc' = "ReadKey"
    /\ UNCHANGED <<content, doc, parser, formatter, oss, second, calls,
                   value, other, equal>>

\* value[key] on a value that is not const
WriteKey ==
    /\ pc = "Construct"
    /\ \E key \in AccessKeys :
           /\ access' = Called("WriteKey", key, JSONAtKey(value, key))
           /\ value' = JSONAtKey(value, key).self
    /\ pc' = "WriteKey"
    /\ UNCHANGED <<content, doc, parser, formatter, oss, second, calls,
                   other, equal>>

\* std::get<JSONObject>(*value).HasKey(key)
QueryKey ==
    /\ pc = "Construct"
    /\ value.type = "Object"
    /\ \E key \in AccessKeys :
           /\ access' = Called("HasKey", key, Returned(NoValue))
           /\ equal' = HasKey(value, key)
    /\ pc' = "HasKey"
    /\ UNCHANGED <<content, doc, parser, formatter, oss, second, calls,
                   value, other>>

\* value.GetValue<T>()
GetTyped ==
    /\ pc = "Construct"
    /\ \E type \in ValueTypes :
           access' = Called("GetValue", type, GetValue(value, type))
    /\ pc' = "GetValue"
    /\ UNCHANGED <<content, doc, parser, formatter, oss, second, calls,
                   value, other, equal>>

\* std::get<JSONNumber>(*value).GetInteger() and .GetFloat()
GetNumber ==
    /\ pc = "Construct"
    /\ value.type = "Number"
    /\ \/ \E ub \in CastOutcomes :
              access' = Called("GetInteger", ub, GetInteger(value, ub))
       \/ access' = Called("GetFloat", "", GetFloat(value))
    /\ pc' = "GetNumber"
    /\ UNCHANGED <<content, doc, parser, formatter, oss, second, calls,
                   value, other, equal>>

NextValue ==
    \/ Construct
    \/ SerializeBuilt
    \/ CompareBuilt
    \/ IndexValue
    \/ ReadKey
    \/ WriteKey
    \/ QueryKey
    \/ GetTyped
    \/ GetNumber

SpecValue == InitValue /\ [][NextValue]_vars

(***************************************************************************)
(* Properties.                                                             *)
(***************************************************************************)
IsWhitespace(c) == c \in {Ord[" "], Ord["\t"], Ord["\n"], Ord["\r"]}

AllWhitespace(text) == \A i \in DOMAIN text : IsWhitespace(text[i])

\* the message has the form
\* "JSON parsing error at line <L>, column <C>: <reason>"
Positional(err) ==
    /\ Len(err) = 6
    /\ err[1] = "JSON parsing error at line "
    /\ err[3] = ", column "
    /\ err[5] = ": "

\* the number of octets c in the text
Count(text, c) == Cardinality({i \in DOMAIN text : text[i] = c})

\* the index of the last octet c in the text, 0 if there is none
LastIndex(text, c) ==
    IF \E i \in DOMAIN text : text[i] = c
    THEN CHOOSE i \in DOMAIN text :
             text[i] = c /\ \A j \in DOMAIN text : j > i => text[j] # c
    ELSE 0

\* the text an instance has consumed
Consumed(ps) == SubSeq(ps.content, 1, ps.p - 1)

\* C1: for every value v that ToString can serialise, Parse(v.ToString())
\* succeeds and returns a value structurally equal to v, a Float staying a
\* Float.
RoundTripEqual ==
    pc = "Reparse" => ~Threw(second) /\ JSONEq(second.ret, parser.ret)

\* C2: Parse returns a value only if the whole text is one RFC 8259 value
\* surrounded by optional whitespace; for any other text it throws.
ParseAcceptsOnlyJSON ==
    pc = "Parse" /\ ~Threw(parser) => IsJSONText(content)

\* C3: a text in which two members of one Object have the same decoded key
\* (however the keys are written, at any depth) makes Parse throw "Duplicate
\* name" and return nothing; without such a pair Parse returns the value the
\* text denotes, the same key in different Objects included.
DuplicateKeyRejected ==
    pc = "Parse" /\ doc.kind = "tree" =>
        IF TreeDup(doc.tree)
        THEN /\ Positional(parser.err)
             /\ parser.err[6] = "Duplicate name"
             /\ parser.ret = NoValue
        ELSE /\ ~Threw(parser)
             /\ JSONEq(parser.ret, TreeValue(doc.tree))

\* a nested Object with the same key written plainly and with an escape
DuplicateKeyWitness ==
    /\ pc = "Parse"
    /\ doc.kind = "tree"
    /\ doc.tree.wrap # <<>>
    /\ \E i, j \in DOMAIN doc.tree.obj :
           /\ i < j
           /\ doc.tree.obj[i].decoded = doc.tree.obj[j].decoded
           /\ doc.tree.obj[i].text # doc.tree.obj[j].text
    /\ Threw(parser)

\* C4: for every RFC 8259 text and either configuration, Print succeeds on
\* its own output and returns it unchanged.
PrintIdempotent ==
    pc = "Reprint" /\ IsJSONText(content) =>
        ~Threw(second) /\ second.ret = formatter.ret

\* the longest chain of calls in the parser: no function in it calls a
\* function before it
ParseCallChain ==
    <<"Parse", "ParseInitialValue", "ParseCompositeValue", "ParseArray",
      "ParsePrimitiveValue", "ParseString", "ParseUnicode">>

\* C5: whatever the nesting of the input, no more calls are active at once
\* than the call chain is long and ParseObject/ParseArray is never entered
\* while one of them is active; N '[' are handled with N frames on
\* composite_context.
BoundedCallDepth ==
    pc = "Parse" =>
        /\ parser.maxdepth <= Len(ParseCallChain)
        /\ ~parser.reentered
        /\ doc.kind = "nest" => parser.maxframes = doc.open

\* the deepest nesting, closed properly, parsed
BoundedCallDepthWitness ==
    /\ pc = "Parse"
    /\ doc.kind = "nest"
    /\ doc.open = MaxNest
    /\ doc.close = MaxNest
    /\ ~Threw(parser)
    /\ parser.maxframes = MaxNest

\* C6: a call on an instance that has made calls before returns or throws
\* exactly what the same call on a new instance returns or throws.
CallsIndependent ==
    /\ pc = "ParseAgain" =>
           parser.ret = second.ret /\ parser.err = second.err
    /\ pc = "PrintAgain" =>
           formatter.ret = second.ret /\ formatter.err = second.err

\* the column counter is the number of octets consumed since the last '\n'
ColumnCounted(ps) ==
    ps.column = Len(Consumed(ps)) - LastIndex(Consumed(ps), Ord["\n"])

\* C7: when a call ends, the line counter is the number of '\n' consumed
\* and the column counter the number of octets consumed since the last of
\* them; the line of an error message is that line counter.
NewlineAdvancesLine ==
    /\ pc = "Parse" =>
           /\ parser.line = Count(Consumed(parser), Ord["\n"])
           /\ ColumnCounted(parser)
           /\ Positional(parser.err) => parser.err[2] = parser.line
    /\ pc = "Print" =>
           /\ formatter.line = Count(Consumed(formatter), Ord["\n"])
           /\ ColumnCounted(formatter)
           /\ Positional(formatter.err) => formatter.err[2] = formatter.line

\* C8 as stated: every error of Parse, Print(text) and Print(value) has the
\* positional form.
AllErrorsPositional ==
    /\ pc = "Parse" /\ Threw(parser) => Positional(parser.err)
    /\ pc \in {"Print", "PrintJSON"} /\ Threw(formatter) =>
           Positional(formatter.err)

\* the messages of the errors of JSON::ToString for the String s
SerializationErrors(s) == {InvalidUTF8(s), InvalidUnicode(s)}

\* the octet strings held by the Strings and the keys of a value
RECURSIVE StringsOf(_)
StringsOf(v) ==
    CASE v.type = "String" -> {v.str}
      [] v.type = "Array" -> UNION {StringsOf(v.items[i]) : i \in DOMAIN v.items}
      [] v.type = "Object" ->
           (DOMAIN v.members)
           \cup UNION {StringsOf(v.members[k]) : k \in DOMAIN v.members}
      [] OTHER -> {}

\* C8, amended: an error raised while the text is scanned has the positional
\* form, with the line counter of the instance and a column no greater than
\* its column counter; empty and whitespace-only input, and a value that
\* cannot be serialised, are reported with a plain message.
ScanErrorsPositional ==
    /\ pc = "Parse" /\ Threw(parser) =>
           IF content = <<>>
           THEN parser.err = JSONException("The content string is empty")
           ELSE IF AllWhitespace(content)
           THEN parser.err = JSONException(
                    "The content string contains only whitespace")
           ELSE /\ Positional(parser.err)
                /\ parser.err[2] = parser.line
                /\ parser.err[4] \in 0..parser.column
    /\ pc = "Print" /\ Threw(formatter) =>
           IF content = <<>>
           THEN formatter.err = JSONException("The content string is empty")
           ELSE IF AllWhitespace(content)
           THEN formatter.err = JSONException(
                    "The content string contains only whitespace")
           ELSE /\ Positional(formatter.err)
                /\ formatter.err[2] = formatter.line
                /\ formatter.err[4] \in 0..formatter.column
    /\ pc = "PrintJSON" /\ Threw(formatter) =>
           IF Positional(formatter.err)
           THEN /\ formatter.err[2] = formatter.line
                /\ formatter.err[4] \in 0..formatter.column
           ELSE \E s \in StringsOf(parser.ret) :
                    formatter.err \in SerializationErrors(s)

\* a missing comma found behind the first column
ScanErrorsPositionalWitness ==
    /\ pc = "Parse"
    /\ Positional(parser.err)
    /\ parser.err[6] = "Expected a comma"
    /\ parser.err[4] > 0

\* C9: Parse and Print throw on the empty text and on a text of whitespace
\* only, and throw "Unexpected character" when a value is followed by
\* anything but whitespace.
EmptyAndTrailingRejected ==
    /\ pc = "Parse" =>
           /\ content = <<>> \/ AllWhitespace(content) =>
                  Threw(parser) /\ parser.ret = NoValue
           /\ doc.kind = "framed" /\ ~AllWhitespace(doc.trail) =>
                  /\ Positional(parser.err)
                  /\ parser.err[6] = "Unexpected character"
                  /\ parser.ret = NoValue
    /\ pc = "Print" =>
           /\ content = <<>> \/ AllWhitespace(content) =>
                  Threw(formatter) /\ formatter.ret = <<>>
           /\ doc.kind = "framed" /\ ~AllWhitespace(doc.trail) =>
                  /\ Positional(formatter.err)
                  /\ formatter.err[6] = "Unexpected character"
                  /\ formatter.ret = <<>>

\* a second value after whitespace, refused by Parse
EmptyAndTrailingRejectedWitness ==
    /\ pc = "Parse"
    /\ doc.kind = "framed"
    /\ doc.trail = T(<<" ", "1">>)
    /\ doc.lead # <<>>
    /\ Threw(parser)

\* C10: a text that is one number is stored as Integer if and only if it
\* holds none of '.', 'e', 'E', and as Float otherwise.
IntegerIffNoFraction ==
    pc = "Parse" /\ ~Threw(parser) /\ parser.ret.type = "Number" =>
        (IsInteger(parser.ret) <=>
             \A i \in DOMAIN content :
                 content[i] \notin {Ord["."], Ord["e"], Ord["E"]})

\* a number with an exponent and no fraction, stored as Float
IntegerIffNoFractionWitness ==
    /\ pc = "Parse"
    /\ ~Threw(parser)
    /\ parser.ret.type = "Number"
    /\ IsFloat(parser.ret)
    /\ \A i \in DOMAIN content : content[i] # Ord["."]

(***************************************************************************)
(* Unicode escapes.                                                        *)
(***************************************************************************)
\* UTF-16 code units of the high (0xD800..0xDBFF) and low (0xDC00..0xDFFF)
\* surrogate ranges
IsHighSurrogate(v) == v \in 55296..56319
IsLowSurrogate(v) == v \in 56320..57343

\* every high surrogate is immediately followed by a low one and no low
\* surrogate stands anywhere else
RECURSIVE WellPaired(_)
WellPaired(units) ==
    IF units = <<>> THEN TRUE
    ELSE IF IsHighSurrogate(units[1].value)
    THEN /\ Len(units) >= 2
         /\ IsLowSurrogate(units[2].value)
         /\ WellPaired(SubSeq(units, 3, Len(units)))
    ELSE IF IsLowSurrogate(units[1].value) THEN FALSE
    ELSE WellPaired(Tail(units))

\* the units are surrogate pairs and nothing else
OnlyPairs(units) ==
    /\ WellPaired(units)
    /\ \A i \in DOMAIN units :
           IsHighSurrogate(units[i].value) \/ IsLowSurrogate(units[i].value)

\* the code point 0x10000 + (hi - 0xD800) * 0x400 + (lo - 0xDC00) of a pair
PairCodePoint(hi, lo) == 65536 + (hi - 55296) * 1024 + (lo - 56320)

\* the four octets 11110xxx 10xxxxxx 10xxxxxx 10xxxxxx of a code point
\* above 0xFFFF
UTF8Of4(cp) ==
    <<240 + (cp \div 262144), 128 + ((cp \div 4096) % 64),
      128 + ((cp \div 64) % 64), 128 + (cp % 64)>>

RECURSIVE PairsUTF8(_)
PairsUTF8(units) ==
    IF units = <<>> THEN <<>>
    ELSE UTF8Of4(PairCodePoint(units[1].value, units[2].value))
         \o PairsUTF8(SubSeq(units, 3, Len(units)))

\* the hex digits of a unit in upper case
UpperHex(text) ==
    [i \in DOMAIN text |-> IF text[i] >= Ord["a"] THEN text[i] - 32
                           ELSE text[i]]

RECURSIVE UpperEscapes(_)
UpperEscapes(units) ==
    IF units = <<>> THEN <<>>
    ELSE T(<<"\\", "u">>) \o UpperHex(Head(units).text)
         \o UpperEscapes(Tail(units))

\* C11: a String written as the \u escapes of surrogate pairs, with hex
\* digits in either case, parses to the 4-octet UTF-8 encodings of the code
\* points of the pairs, and that String is serialised as the same pairs in
\* upper-case hex.
SurrogatePairRoundTrip ==
    doc.kind = "units" /\ OnlyPairs(doc.units) =>
        /\ pc = "Parse" =>
               /\ ~Threw(parser)
               /\ parser.ret = JSONString(PairsUTF8(doc.units))
        /\ pc = "ToString" =>
               /\ oss.err = NoError
               /\ oss.out = T(<<"\"">>) \o UpperEscapes(doc.units)
                               \o T(<<"\"">>)

\* the pair of the largest code point, written in mixed case, serialised
SurrogatePairRoundTripWitness ==
    /\ pc = "ToString"
    /\ doc.kind = "units"
    /\ Len(doc.units) = 2
    /\ doc.units[1].value = 56319
    /\ doc.units[2].value = 57343
    /\ parser.ret = JSONString(<<244, 143, 191, 191>>)
    /\ oss.out = T(<<"\"", "\\", "u", "D", "B", "F", "F",
                     "\\", "u", "D", "F", "F", "F", "\"">>)

\* C12: a \u escape of a high surrogate that is not immediately followed
\* by a \u escape of a low surrogate, and a \u escape of a low surrogate
\* that does not follow a high one, make Parse throw and return nothing.
UnpairedSurrogateRejected ==
    pc = "Parse" /\ ((doc.kind = "units" /\ ~WellPaired(doc.units))
                     \/ content \in UnpairedTexts) =>
        /\ Positional(parser.err)
        /\ parser.ret = NoValue

\* a high surrogate followed by the escape of a code unit that is no low
\* surrogate, refused
UnpairedSurrogateRejectedWitness ==
    /\ pc = "Parse"
    /\ doc.kind = "units"
    /\ Len(doc.units) = 2
    /\ IsHighSurrogate(doc.units[1].value)
    /\ ~IsLowSurrogate(doc.units[2].value)
    /\ Positional(parser.err)
    /\ parser.err[6] = "Expected low Unicode surrogate value"


(***************************************************************************)
(* Serialization of constructed values.                                    *)
(***************************************************************************)
IsTail(c) == c \in 128..191

\* RFC 3629, section 4: the octet sequences that are UTF-8
RECURSIVE IsValidUTF8(_)
IsValidUTF8(s) ==
    IF s = <<>> THEN TRUE
    ELSE LET n == Len(s)
             c == s[1]
             rest(k) == IsValidUTF8(SubSeq(s, k + 1, n))
         IN  \/ c <= 127 /\ rest(1)
             \/ /\ c \in 194..223
                /\ n >= 2 /\ IsTail(s[2])
                /\ rest(2)
             \/ /\ c \in 224..239
                /\ n >= 3 /\ IsTail(s[2]) /\ IsTail(s[3])
                /\ c = 224 => s[2] >= 160
                /\ c = 237 => s[2] <= 159
                /\ rest(3)
             \/ /\ c \in 240..244
                /\ n >= 4 /\ IsTail(s[2]) /\ IsTail(s[3]) /\ IsTail(s[4])
                /\ c = 240 => s[2] >= 144
                /\ c = 244 => s[2] <= 143
                /\ rest(4)

\* C13: serializing a String whose octets are not valid UTF-8 (a stray
\* continuation octet, an invalid lead octet, a truncated sequence, an
\* overlong encoding, an encoded surrogate, a value above 0x10FFFF) throws.
InvalidUTF8Rejected ==
    pc = "ToStringBuilt" /\ doc.kind = "string" /\ ~IsValidUTF8(doc.a.str) =>
        oss.err # NoError

\* a recipe holds, at some depth, a Float that is NaN or an infinity
RECURSIVE HasNonFinite(_)
HasNonFinite(recipe) ==
    CASE recipe.type = "Object" ->
           \E i \in DOMAIN recipe.pairs : HasNonFinite(recipe.pairs[i].val)
      [] recipe.type = "Array" ->
           \E i \in DOMAIN recipe.items : HasNonFinite(recipe.items[i])
      [] recipe.type = "Number" -> recipe.isfloat /\ recipe.fp # "finite"
      [] OTHER -> FALSE

NonFiniteErrors ==
    {JSONException("Value of infinity is disallowed in JSON"),
     JSONException("Value of NaN is disallowed in JSON")}

\* C14: serializing a value that holds, at any depth, a Float that is NaN,
\* +Infinity or -Infinity throws; a value whose Numbers are all finite is
\* serialized without error.
NonFiniteRejected ==
    pc = "ToStringBuilt" /\ doc.kind \in {"wrapped", "numbers"} =>
        IF HasNonFinite(doc.a) THEN oss.err \in NonFiniteErrors
        ELSE oss.err = NoError

NonFiniteRejectedWitness ==
    /\ pc = "ToStringBuilt"
    /\ doc.kind = "wrapped"
    /\ value = JSONObject(MapAssign(EmptyMap, T(<<"a">>),
                  JSONArray(<<JSONInteger(FALSE, <<1>>),
                              JSONFloatNonFinite(TRUE, "inf")>>)))
    /\ oss.err = JSONException("Value of infinity is disallowed in JSON")

(***************************************************************************)
(* The layout of Print.  The expected text is built from the tree the      *)
(* source text was rendered from, not from the text.                       *)
(***************************************************************************)
\* a key as PrintString writes it (a key without escapes is written as it is)
KeyAsPrinted(text) ==
    PrintString([JSONFormatter(0, FALSE) EXCEPT !.content = text]).o

\* the tree with every key replaced by what PrintString writes for it
AsPrinted(tree) ==
    [obj |-> [i \in DOMAIN tree.obj |->
                 [text |-> KeyAsPrinted(tree.obj[i].text),
                  decoded |-> tree.obj[i].decoded]],
     wrap |-> tree.wrap]

\* a text without the spaces and line ends in it
StripLayout(text) ==
    LET Kept(c) == c \notin {Ord[" "], Ord["\n"]}
    IN  SelectSeq(text, Kept)

\* C15: Print writes the members of every Object in the order of the source
\* text, duplicate keys included, and nothing is sorted, merged or dropped:
\* without its layout the output is the source text, member by member.
MembersInSourceOrder ==
    pc = "Print" /\ doc.kind = "tree" =>
        /\ ~Threw(formatter)
        /\ StripLayout(formatter.ret) = Render(AsPrinted(doc.tree))

MembersInSourceOrderWitness ==
    /\ pc = "Print"
    /\ doc.kind = "tree"
    /\ doc.tree.wrap = <<>>
    /\ Len(doc.tree.obj) = 2
    /\ doc.tree.obj[1].decoded = T(<<"b">>)
    /\ doc.tree.obj[2].decoded = T(<<"b">>)
    /\ formatter.indention = 2
    /\ formatter.ret = T(<<"{", "\n", " ", " ", "\"", "b", "\"", ":", " ", "1",
                           ",", "\n", " ", " ", "\"", "b", "\"", ":", " ", "2",
                           "\n", "}">>)

\* the members of the Object at the core of a tree, one per line
RECURSIVE LayoutMembers(_, _, _)
LayoutMembers(obj, i, pad) ==
    IF i > Len(obj) THEN <<>>
    ELSE (IF i > 1 THEN T(<<",">>) \o Endl ELSE <<>>)
         \o pad \o obj[i].text \o T(<<":", " ">>) \o <<Ord["0"] + i>>
         \o LayoutMembers(obj, i + 1, pad)

\* the text expected for a tree that starts at nesting depth d, for the
\* indentation width w
RECURSIVE Layout(_, _, _, _)
Layout(tree, d, w, allman) ==
    LET pad == Spaces(w * (d + 1))
        close == Endl \o Spaces(w * d)
        n == Len(tree.wrap)
        outer == tree.wrap[n]
        inner == Layout([obj |-> tree.obj, wrap |-> SubSeq(tree.wrap, 1, n - 1)],
                        d + 1, w, allman)
    IN  IF n = 0
        THEN T(<<"{">>) \o Endl \o LayoutMembers(tree.obj, 1, pad)
             \o close \o T(<<"}">>)
        ELSE CASE outer = "item" ->
                    T(<<"[">>) \o Endl \o pad \o inner \o close \o T(<<"]">>)
               [] outer = "member" ->
                    T(<<"{">>) \o Endl \o pad \o T(<<"\"", "a", "\"", ":">>)
                    \o (IF allman THEN Endl \o pad ELSE T(<<" ">>))
                    \o inner \o close \o T(<<"}">>)
               [] OTHER ->
                    T(<<"[">>) \o Endl \o pad \o inner \o T(<<",">>) \o Endl
                    \o pad \o inner \o close \o T(<<"]">>)

\* C16: in the output of Print every Object and Array has a line end after
\* its opening delimiter, each member on a line of its own indented by the
\* indentation width times its nesting depth, a comma and a line end between
\* members, and the closing delimiter on a line of its own at the indentation
\* of the line that opened it (an empty container has an empty line between
\* its delimiters); at the end the current indentation is 0 again.
PrintLayout ==
    pc = "Print" /\ doc.kind = "tree" =>
        /\ ~Threw(formatter)
        /\ formatter.ret = Layout(AsPrinted(doc.tree), 0, formatter.indention,
                                  formatter.allman_style)
        /\ formatter.current_indention = 0

PrintLayoutWitness ==
    /\ pc = "Print"
    /\ doc.kind = "tree"
    /\ doc.tree.wrap = <<"pair">>
    /\ Len(doc.tree.obj) = 1
    /\ formatter.indention = 2
    /\ formatter.current_indention = 0
    /\ formatter.ret =
           T(<<"[", "\n",
               " ", " ", "{", "\n",
               " ", " ", " ", " ", "\"", "b", "\"", ":", " ", "1", "\n",
               " ", " ", "}", ",", "\n",
               " ", " ", "{", "\n",
               " ", " ", " ", " ", "\"", "b", "\"", ":", " ", "1", "\n",
               " ", " ", "}", "\n",
               "]">>)

\* the number of spaces a text has from index j on
RECURSIVE SpacesAt(_, _)
SpacesAt(text, j) ==
    IF j > Len(text) \/ text[j] # Ord[" "] THEN 0
    ELSE 1 + SpacesAt(text, j + 1)

\* the index at which the line holding index i starts
RECURSIVE LineStart(_, _)
LineStart(text, i) ==
    IF i = 1 \/ text[i - 1] = Ord["\n"] THEN i ELSE LineStart(text, i - 1)

\* the ':' at index i of the output is followed as the style demands
ColonFollowed(out, i, allman) ==
    LET broken == i + 1 <= Len(out) /\ out[i + 1] = Ord["\n"]
        j == i + 2 + SpacesAt(out, i + 2)
        composite == j <= Len(out) /\ out[j] \in {Ord["{"], Ord["["]}
    IN  IF allman /\ composite
        THEN /\ broken
             /\ SpacesAt(out, i + 2) = SpacesAt(out, LineStart(out, i))
        ELSE /\ i + 2 <= Len(out)
             /\ out[i + 1] = Ord[" "]
             /\ out[i + 2] \notin {Ord[" "], Ord["\n"]}

\* C17: in Allman style the ':' of a member whose value is an Object or an
\* Array ends its line, and the opening delimiter stands alone on the next
\* line at the indentation of the key; otherwise the ':' is followed by one
\* space and the value starts on the line of its key.
AllmanColon ==
    pc = "Print" /\ doc.kind = "tree" =>
        /\ ~Threw(formatter)
        /\ \A i \in DOMAIN formatter.ret :
               formatter.ret[i] = Ord[":"] =>
                   ColonFollowed(formatter.ret, i, formatter.allman_style)

AllmanColonWitness ==
    /\ pc = "Print"
    /\ doc.kind = "tree"
    /\ doc.tree.wrap = <<"member">>
    /\ formatter.allman_style
    /\ formatter.indention = 3
    /\ formatter.ret =
           T(<<"{", "\n",
               " ", " ", " ", "\"", "a", "\"", ":", "\n",
               " ", " ", " ", "{", "\n",
               " ", " ", " ", " ", " ", " ", "\"", "b", "\"", ":", " ", "1", "\n",
               " ", " ", " ", "}", "\n",
               "}">>)

(***************************************************************************)
(* Failed calls.                                                           *)
(***************************************************************************)
\* C18: a call of Parse or Print that throws delivers nothing: Parse returns
\* no value, Print returns no string and has written nothing to the stream
\* it was given (formatter.o, empty before the call).
NoPartialResult ==
    /\ pc = "Parse" /\ Threw(parser) => parser.ret = NoValue
    /\ pc = "Print" /\ Threw(formatter) =>
           /\ formatter.ret = <<>>
           /\ formatter.o = <<>>

(***************************************************************************)
(* Equality.                                                               *)
(***************************************************************************)
\* C19: two Objects built from the same pairs in different orders, at every
\* depth, compare equal and have the same compact text.
InsertionOrderIrrelevant ==
    doc.kind = "orders" =>
        /\ pc = "Compare" => equal
        /\ pc = "ToStringBuilt" => /\ oss.err = NoError
                                   /\ second.err = NoError
                                   /\ oss.out = second.out

InsertionOrderIrrelevantWitness ==
    /\ pc = "Compare"
    /\ doc.kind = "orders"
    /\ doc.a.pairs[1].key = T(<<"b">>)
    /\ doc.b.pairs[1].key = T(<<"a", "b">>)
    /\ doc.a.pairs[3].val # doc.b.pairs[1].val
    /\ equal
    /\ second.out = oss.out
    /\ oss.out = T(<<"{", "\"", "a", "\"", ":", " ", "1", ",", " ",
                      "\"", "a", "b", "\"", ":", " ",
                      "{", "\"", "a", "\"", ":", " ", "2", ".", "5", ",", " ",
                      "\"", "b", "\"", ":", " ", "1", "}", ",", " ",
                      "\"", "b", "\"", ":", " ", "\"", "x", "\"", "}">>)

\* the digits of a Number without trailing zeros, with the exponent that
\* keeps the value
RECURSIVE Normalised(_, _)
Normalised(digits, exp) ==
    IF digits = <<>> THEN [digits |-> <<>>, exp |-> 0]
    ELSE IF digits[Len(digits)] = 0
    THEN Normalised(SubSeq(digits, 1, Len(digits) - 1), exp + 1)
    ELSE [digits |-> digits, exp |-> exp]

\* two Numbers have the same numerical value (a NaN has none)
NumericallyEqual(a, b) ==
    IF a.fp # "finite" \/ b.fp # "finite"
    THEN a.fp = "inf" /\ b.fp = "inf" /\ a.neg = b.neg
    ELSE /\ Normalised(a.digits, a.exp) = Normalised(b.digits, b.exp)
         /\ a.neg = b.neg \/ Normalised(a.digits, a.exp).digits = <<>>

\* C20: two Numbers are equal exactly if they have the same stored case and
\* equal values; an Integer and a Float are never equal, whatever their
\* values.
NumberEqualityByCase ==
    pc = "Compare" /\ doc.kind = "numbers" =>
        (equal <=> /\ IsFloat(value) = IsFloat(other)
                   /\ NumericallyEqual(value, other))

NumberEqualityByCaseWitness ==
    /\ pc = "Compare"
    /\ doc.kind = "numbers"
    /\ value = JSONInteger(FALSE, <<2>>)
    /\ other = JSONFloat(FALSE, <<2>>, 0)
    /\ NumericallyEqual(value, other)
    /\ ~equal

(***************************************************************************)
(* The text of a String.                                                   *)
(***************************************************************************)
\* the code points of a valid UTF-8 text (RFC 3629, section 3)
RECURSIVE CodePoints(_)
CodePoints(s) ==
    IF s = <<>> THEN <<>>
    ELSE LET c == s[1]
             n == IF c <= 127 THEN 1 ELSE IF c <= 223 THEN 2
                  ELSE IF c <= 239 THEN 3 ELSE 4
             cp == CASE n = 1 -> c
                     [] n = 2 -> (c - 192) * 64 + (s[2] - 128)
                     [] n = 3 -> (c - 224) * 4096 + (s[2] - 128) * 64
                                 + (s[3] - 128)
                     [] OTHER -> (c - 240) * 262144 + (s[2] - 128) * 4096
                                 + (s[3] - 128) * 64 + (s[4] - 128)
         IN  <<cp>> \o CodePoints(SubSeq(s, n + 1, Len(s)))

HexChars ==
    T(<<"0", "1", "2", "3", "4", "5", "6", "7",
        "8", "9", "A", "B", "C", "D", "E", "F">>)

\* \uXXXX for a 16-bit unit
EscapeUnit(v) ==
    T(<<"\\", "u">>)
    \o <<HexChars[(v \div 4096) + 1], HexChars[((v \div 256) % 16) + 1],
          HexChars[((v \div 16) % 16) + 1], HexChars[(v % 16) + 1]>>

\* the text that stands for a code point in a serialized String
EscapedCodePoint(cp) ==
    CASE cp > 65535 ->
           EscapeUnit(55296 + ((cp - 65536) \div 1024))
           \o EscapeUnit(56320 + ((cp - 65536) % 1024))
      [] cp > 127 /\ cp <= 65535 -> EscapeUnit(cp)
      [] cp = 34 -> T(<<"\\", "\"">>)
      [] cp = 92 -> T(<<"\\", "\\">>)
      [] cp = 8 -> T(<<"\\", "b">>)
      [] cp = 12 -> T(<<"\\", "f">>)
      [] cp = 10 -> T(<<"\\", "n">>)
      [] cp = 13 -> T(<<"\\", "r">>)
      [] cp = 9 -> T(<<"\\", "t">>)
      [] cp = 126 -> EscapeUnit(126)
      [] cp < 32 /\ cp \notin {8, 9, 10, 12, 13} -> EscapeUnit(cp)
      [] OTHER -> <<cp>>

RECURSIVE EscapedText(_)
EscapedText(cps) ==
    IF cps = <<>> THEN <<>>
    ELSE EscapedCodePoint(Head(cps)) \o EscapedText(Tail(cps))

\* C21: the text of a String of valid UTF-8 holds ASCII octets only: a code
\* point above 0x7F is written as \uXXXX (two units above 0xFFFF), a control
\* octet below 0x20 as an escape, and 0x7E as \u007E, never as '~'.
SerializedStringIsASCII ==
    pc = "ToStringBuilt" /\ doc.kind = "string" /\ IsValidUTF8(doc.a.str) =>
        /\ oss.err = NoError
        /\ \A i \in DOMAIN oss.out :
               oss.out[i] <= 127 /\ oss.out[i] >= 32 /\ oss.out[i] # Ord["~"]
        /\ oss.out = T(<<"\"">>) \o EscapedText(CodePoints(doc.a.str))
                     \o T(<<"\"">>)

SerializedStringIsASCIIWitness ==
    /\ pc = "ToStringBuilt"
    /\ doc.kind = "string"
    /\ doc.a.str = <<65, 126, 9, 34, 226, 130, 172, 0>>
    /\ oss.out = T(<<"\"", "A", "\\", "u", "0", "0", "7", "E", "\\", "t",
                      "\\", "\"", "\\", "u", "2", "0", "A", "C",
                      "\\", "u", "0", "0", "0", "0", "\"">>)

(***************************************************************************)
(* Accessors.                                                              *)
(***************************************************************************)
\* an exception of the library's own kind: neither a fault nor an exception
\* of the standard library
IsJSONException(e) ==
    /\ e # NoError
    /\ e[1] \notin {"SIGSEGV", "SIGILL", "std::out_of_range"}

\* the value before the accessor was called
Before == Build(doc.a)

\* C22: indexing an Array by a position that is not below its size throws
\* the library's exception and returns no element, neither one of the Array
\* nor anything outside it.
ArrayIndexChecked ==
    pc = "Index" /\ Before.type = "Array"
    /\ access.arg >= Len(Before.items) =>
        /\ IsJSONException(access.err)
        /\ access.ret = NoValue

\* C23: reading a key that an Object does not hold through the const
\* accessor throws the library's exception and leaves the Object as it was.
MissingKeyReadThrows ==
    pc = "ReadKey" /\ Before.type = "Object"
    /\ access.arg \notin DOMAIN Before.members =>
        /\ IsJSONException(access.err)
        /\ access.ret = NoValue
        /\ value = Before

\* C24: HasKey throws nothing and changes nothing, and so does the const
\* accessor; the mutating accessor adds one entry holding a default JSON for
\* a key that is missing, adds nothing for a key that is present, and leaves
\* every other entry as it was.
OnlyWriteAccessCreates ==
    /\ pc = "HasKey" => /\ access.err = NoError
                        /\ value = Before
                        /\ equal <=> access.arg \in DOMAIN Before.members
    /\ pc = "ReadKey" => value = Before
    /\ pc = "WriteKey" /\ Before.type = "Object" =>
           /\ access.err = NoError
           /\ value.type = "Object"
           /\ DOMAIN value.members = DOMAIN Before.members \cup {access.arg}
           /\ \A k \in DOMAIN Before.members :
                  value.members[k] = Before.members[k]
           /\ access.arg \notin DOMAIN Before.members =>
                  value.members[access.arg] = JSONObject(EmptyMap)
           /\ access.ret = value.members[access.arg]

OnlyWriteAccessCreatesWitness ==
    /\ pc = "WriteKey"
    /\ doc.kind = "plain"
    /\ Before.type = "Object"
    /\ DOMAIN Before.members = {T(<<"a">>), T(<<"b">>), <<>>}
    /\ access.arg = T(<<"c">>)
    /\ DOMAIN value.members = {T(<<"a">>), T(<<"b">>), T(<<"c">>), <<>>}
    /\ value.members[T(<<"c">>)] = JSONObject(EmptyMap)
    /\ value.members[<<>>] = JSONInteger(FALSE, <<7>>)

\* C25: GetValue<T>() returns the payload if the JSON holds a T and throws
\* the library's exception otherwise; the JSON holds what it held before.
TypedAccessorChecked ==
    pc = "GetValue" =>
        /\ value = Before
        /\ IF Before.type = access.arg
           THEN access.err = NoError /\ access.ret = Before
           ELSE /\ IsJSONException(access.err)
                /\ access.ret = NoValue

TypedAccessorCheckedWitness ==
    /\ pc = "GetValue"
    /\ value.type = "Array"
    /\ access.arg = "Object"
    /\ access.ret = NoValue
    /\ access.err =
           JSONException("JSON object contains a different value type")

\* the Integer nearest to a Float among those between it and zero
NearestInteger(n) ==
    IF n.fp = "nan" THEN JSONInteger(FALSE, <<0>>)
    ELSE IF ~FitsInteger(n)
    THEN JSONInteger(n.neg, IF n.neg THEN LLongMinDigits ELSE LLongMaxDigits)
    ELSE IF Len(n.digits) + n.exp <= 0 THEN JSONInteger(FALSE, <<0>>)
    ELSE JSONInteger(n.neg,
                     [i \in 1..(Len(n.digits) + n.exp) |->
                         IF i <= Len(n.digits) THEN n.digits[i] ELSE 0])

\* C26: GetInteger and GetFloat return a value for every Number, whatever it
\* stores: the stored value, or its cast, which for a Float is the Integer
\* nearest to it between it and zero, also if the Float is not integral,
\* not finite or beyond the range of a JSONInteger.
NumberGettersDefined ==
    pc = "GetNumber" =>
        /\ access.err = NoError
        /\ access.op = "GetInteger" =>
               access.ret = IF IsFloat(value) THEN NearestInteger(value)
                            ELSE value
        /\ access.op = "GetFloat" =>
               /\ IsFloat(access.ret)
               /\ NumericallyEqual(access.ret, value)
\* C27: calls on different instances do not affect each other: however the
\* iterations of parser.Parse(doc.a), second.Parse(doc.b) and
\* formatter.Print(doc.c) are interleaved, each call ends with the result,
\* the exception and the instance state that the same call has when it is
\* the only one made.
InstancesIndependent ==
    /\ pc.parser = "done" => parser = Parse(JSONParser, doc.a, doc.ub)
    /\ pc.second = "done" => second = Parse(JSONParser, doc.b, doc.ub)
    /\ pc.formatter = "done" =>
           formatter = PrintContent(JSONFormatter(formatter.indention,
                                                  formatter.allman_style),
                                    doc.c, doc.ub)

\* the three calls have ended after advancing in turns, on different texts,
\* one with a value, one with an exception
InstancesIndependentWitness ==
    /\ pc = Positions("done", "done", "done")
    /\ equal
    /\ doc.a # doc.b
    /\ ~Threw(parser) /\ parser.ret.type = "Object"
    /\ Threw(second)
    /\ ~Threw(formatter) /\ Len(formatter.ret) > Len(doc.c)

\* the octet at i of text is outside the strings of text (the texts of
\* StepTexts escape no quotation mark)
OutsideString(text, i) ==
    Cardinality({j \in 1..(i - 1) : text[j] = Ord["\""]}) % 2 = 0

IsOpening(text, i) ==
    /\ i \in DOMAIN text
    /\ text[i] \in {Ord["["], Ord["{"]}
    /\ OutsideString(text, i)

IsClosing(text, i) ==
    /\ i \in DOMAIN text
    /\ text[i] \in {Ord["]"], Ord["}"]}
    /\ OutsideString(text, i)

\* the opening delimiters among the first n octets of text whose closing
\* delimiter is not among them, outermost first
RECURSIVE Unclosed(_, _)
Unclosed(text, n) ==
    IF n = 0 THEN <<>>
    ELSE IF IsOpening(text, n) THEN Append(Unclosed(text, n - 1), text[n])
    ELSE IF IsClosing(text, n)
    THEN SubSeq(Unclosed(text, n - 1), 1, Len(Unclosed(text, n - 1)) - 1)
    ELSE Unclosed(text, n - 1)

\* the back frame is that of a composite whose opening delimiter is the next
\* octet to read
Pending(ps) ==
    /\ ps.composite_context # <<>>
    /\ ~Back(ps).opening_seen

\* the composites open when ps has read up to ps.p and reached the opening
\* delimiter of its back frame
OpenComposites(ps) ==
    Unclosed(ps.content, ps.p - 1)
        \o (IF Pending(ps) THEN <<ps.content[ps.p]>> ELSE <<>>)

\* the opening delimiter of the composite that frame i of ps points to
FrameDelimiter(ps, i) ==
    IF GetAt(ps.root, ps.composite_context[i].path).type = "Object"
    THEN Ord["{"] ELSE Ord["["]

\* one frame for each open composite, in nesting order: each frame points
\* to a member of the composite of the frame below it
FramesMatch(ps) ==
    /\ Len(ps.composite_context) = Len(OpenComposites(ps))
    /\ Pending(ps) => IsOpening(ps.content, ps.p)
    /\ \A i \in DOMAIN ps.composite_context :
           /\ FrameDelimiter(ps, i) = OpenComposites(ps)[i]
           /\ Len(ps.composite_context[i].path) = i - 1
           /\ i > 1 => SubSeq(ps.composite_context[i].path, 1, i - 2)
                            = ps.composite_context[i - 1].path
           /\ ~ps.composite_context[i].closing_seen
           /\ i < Len(ps.composite_context)
                  => ps.composite_context[i].opening_seen

\* On instances that make their first call: between two iterations of the
\* driving loop of Parse and of Print, composite_context holds exactly one
\* frame for each Object or Array whose opening delimiter has been reached
\* and whose closing delimiter has not been consumed, in nesting order; the
\* frame of a nested composite is the back one when the step function
\* returns at its opening delimiter, and no frame is left when the call
\* returns a result.
FirstCallFrames ==
    /\ \A i \in DOMAIN pc :
           LET ps == IF i = "parser" THEN parser
                     ELSE IF i = "second" THEN second ELSE formatter
           IN  /\ pc[i] = "loop" /\ ~Threw(ps) => FramesMatch(ps)
               /\ pc[i] = "done" /\ ~Threw(ps) => ps.composite_context = <<>>

\* Parse is between two iterations with three frames, after a frame has been
\* popped, and Print has returned a result
FirstCallFramesWitness ==
    /\ pc.parser = "loop" /\ ~Threw(parser)
    /\ Len(parser.composite_context) = 3
    /\ parser.maxframes = 4
    /\ pc.formatter = "done" /\ ~Threw(formatter)
    /\ formatter.maxframes >= 3

\* C28: the frame stack holds one frame for each open Object or Array and
\* no other: when a call of Parse or Print returns a result, whatever calls
\* the instance made before, every composite is closed and composite_context
\* is empty.
FrameStackDiscipline ==
    /\ pc = "ParseAgain" /\ ~Threw(parser) => parser.composite_context = <<>>
    /\ pc = "PrintAgain" /\ ~Threw(formatter)
           => formatter.composite_context = <<>>

\* C29: Parse and Print terminate: every iteration of the driving loop
\* consumes input, pushes or pops a frame, or throws, and every call that
\* has started returns or throws after finitely many iterations.
CallsTerminate ==
    /\ [](calls = 0)
    /\ <>(pc = Positions("done", "done", "done"))

\* the three calls have ended, one of them after more than four iterations
\* of its loop, one with an exception thrown in its loop
CallsTerminateWitness ==
    /\ pc = Positions("done", "done", "done")
    /\ \E ps \in {parser, second, formatter} :
           ~Threw(ps) /\ ps.maxframes >= 3
    /\ \E ps \in {parser, second, formatter} :
           Threw(ps) /\ ps.maxframes >= 1

\* the opening delimiters among the first n octets of text
Openings(text, n) == Cardinality({i \in 1..n : IsOpening(text, i)})

\* the Objects and Arrays of the value v
RECURSIVE Composites(_), CompositesIn(_)
Composites(v) ==
    IF v.type = "Array" THEN 1 + CompositesIn(v.items)
    ELSE IF v.type = "Object"
    THEN 1 + CompositesIn([i \in 1..Cardinality(DOMAIN v.members) |->
                              v.members[SortedKeys(DOMAIN v.members)[i]]])
    ELSE 0

CompositesIn(values) ==
    IF values = <<>> THEN 0
    ELSE Composites(Head(values)) + CompositesIn(Tail(values))

\* the frames of ps between two iterations: every frame has had its opening
\* delimiter consumed, but a back frame that has not been entered yet; a
\* back frame that has been entered is resumed after the closing delimiter
\* of its child
OpeningsConsumed(ps) ==
    /\ \A i \in 1..(Len(ps.composite_context) - 1) :
           ps.composite_context[i].opening_seen
    /\ ps.composite_context # <<>> /\ Back(ps).opening_seen
           => IsClosing(ps.content, ps.p - 1)

\* C30: the opening delimiter of each frame is consumed once, when the step
\* function first enters the frame, and the Formatter writes it once and
\* increases the indentation once with it; a frame entered again after its
\* child is resumed after the child.  So the Parser has made one Object or
\* Array for each opening delimiter it consumed or reached, and the
\* Formatter has written as many opening delimiters as it consumed and is
\* indented by one level for each composite still open.
OpeningDelimiterOnce ==
    /\ \A ps \in {parser, second} :
           /\ ps.callstack # <<>> /\ ~Threw(ps) /\ ps.root.type # "None" =>
                  /\ OpeningsConsumed(ps)
                  /\ Composites(ps.root)
                         = Openings(ps.content, ps.p - 1)
                               + (IF Pending(ps) THEN 1 ELSE 0)
           /\ ps.callstack = <<>> /\ ~Threw(ps) /\ ps.content # <<>> =>
                  Composites(ps.ret) = Openings(ps.content, Len(ps.content))
    /\ pc.formatter # "init" /\ ~Threw(formatter) =>
           /\ pc.formatter = "loop" => OpeningsConsumed(formatter)
           /\ Openings(formatter.o, Len(formatter.o))
                  = Openings(formatter.content, formatter.p - 1)
           /\ formatter.current_indention
                  = formatter.indention
                        * Len(Unclosed(formatter.content, formatter.p - 1))

\* Parse and Print have entered a frame again after a child of it, and
\* Print is indented by two levels
OpeningDelimiterOnceWitness ==
    /\ pc.parser = "loop" /\ ~Threw(parser)
    /\ parser.composite_context # <<>> /\ Back(parser).opening_seen
    /\ Len(parser.composite_context) >= 2
    /\ pc.formatter = "loop" /\ ~Threw(formatter)
    /\ formatter.composite_context # <<>> /\ Back(formatter).opening_seen
    /\ formatter.current_indention = 2 * formatter.indention

(***************************************************************************)
(* The places of the commas of a text, whatever its strings, numbers and   *)
(* literals hold.  Each operator returns the index after the construct     *)
(* starting at index i of the text s, or 0 if no such construct starts     *)
(* there.                                                                  *)
(***************************************************************************)
\* a string after its opening quotation mark; a backslash takes the octet
\* after it
RECURSIVE LooseString(_, _)
LooseString(s, i) ==
    IF i > Len(s) THEN 0
    ELSE IF s[i] = Ord["\""] THEN i + 1
    ELSE IF s[i] = Ord["\\"] THEN LooseString(s, i + 2)
    ELSE LooseString(s, i + 1)

IsStructural(c) ==
    \/ IsWhitespace(c)
    \/ c \in {Ord["["], Ord["]"], Ord["{"], Ord["}"], Ord[","], Ord[":"],
              Ord["\""]}

\* a number or literal: the octets up to the next delimiter or whitespace
RECURSIVE LooseRun(_, _)
LooseRun(s, i) ==
    IF i <= Len(s) /\ ~IsStructural(s[i]) THEN LooseRun(s, i + 1) ELSE i

RECURSIVE LooseValue(_, _)
RECURSIVE LooseElements(_, _)
RECURSIVE LooseMembers(_, _)

LooseValue(s, i) ==
    IF i > Len(s) THEN 0
    ELSE CASE s[i] = Ord["\""] -> LooseString(s, i + 1)
           [] s[i] = Ord["["] ->
                IF RFCWs(s, i + 1) <= Len(s) /\ s[RFCWs(s, i + 1)] = Ord["]"]
                THEN RFCWs(s, i + 1) + 1
                ELSE LooseElements(s, RFCWs(s, i + 1))
           [] s[i] = Ord["{"] ->
                IF RFCWs(s, i + 1) <= Len(s) /\ s[RFCWs(s, i + 1)] = Ord["}"]
                THEN RFCWs(s, i + 1) + 1
                ELSE LooseMembers(s, RFCWs(s, i + 1))
           [] OTHER -> IF LooseRun(s, i) = i THEN 0 ELSE LooseRun(s, i)

\* an item, then a comma and the other items, or the closing bracket
LooseElements(s, i) ==
    LET v == LooseValue(s, i)
        j == RFCWs(s, v)
    IN  IF v = 0 \/ j > Len(s) THEN 0
        ELSE IF s[j] = Ord[","] THEN LooseElements(s, RFCWs(s, j + 1))
        ELSE IF s[j] = Ord["]"] THEN j + 1
        ELSE 0

\* a member, then a comma and the other members, or the closing brace
LooseMembers(s, i) ==
    IF i > Len(s) \/ s[i] # Ord["\""] THEN 0
    ELSE
    LET k == LooseString(s, i + 1)
        c == RFCWs(s, k)
    IN  IF k = 0 \/ c > Len(s) \/ s[c] # Ord[":"] THEN 0
        ELSE
        LET v == LooseValue(s, RFCWs(s, c + 1))
            j == RFCWs(s, v)
        IN  IF v = 0 \/ j > Len(s) THEN 0
            ELSE IF s[j] = Ord[","] THEN LooseMembers(s, RFCWs(s, j + 1))
            ELSE IF s[j] = Ord["}"] THEN j + 1
            ELSE 0

\* one value, with exactly one comma between two members of an Array or
\* Object and no comma anywhere else outside the strings
CommasPlaced(s) ==
    /\ LooseValue(s, RFCWs(s, 1)) # 0
    /\ RFCWs(s, LooseValue(s, RFCWs(s, 1))) = Len(s) + 1

\* C31: a comma is required between two members of an Array or Object and
\* accepted nowhere else: Parse throws, with a position, on a text in which
\* a comma is missing after a member (a nested Array or Object included),
\* stands before the first member or before the closing delimiter, or
\* stands anywhere else outside a string, and every text Parse accepts has
\* its commas between members only.
CommaBetweenMembers ==
    pc = "Parse" =>
        /\ ~Threw(parser) => CommasPlaced(content)
        /\ doc.kind = "commas" =>
               /\ Threw(parser) /\ parser.ret = NoValue
               /\ Positional(parser.err)
               /\ doc.fault = "missing" => parser.err[6] = "Expected a comma"

\* the comma is missing after a nested Array that has closed
CommaBetweenMembersWitness ==
    /\ pc = "Parse"
    /\ doc.kind = "commas" /\ doc.fault = "missing"
    /\ content = T(<<"[", "[", "1", "]", " ", "[", "2", "]", "]">>)
    /\ parser.err = ParsingErrorString(0, 5, "Expected a comma")

\* the quotation mark at j of s opens or closes a string: an even number of
\* backslashes stands right before it
IsStringQuote(s, j) ==
    /\ s[j] = Ord["\""]
    /\ \E k \in 0..(j - 1) :
           /\ k % 2 = 0
           /\ \A m \in 1..k : s[j - m] = Ord["\\"]
           /\ k = j - 1 \/ s[j - k - 1] # Ord["\\"]

\* for each octet of s, whether it is whitespace between two tokens
LayoutMask(s) ==
    LET quote == [j \in DOMAIN s |-> IsStringQuote(s, j)]
    IN  [i \in DOMAIN s |->
            /\ IsWhitespace(s[i])
            /\ Cardinality({j \in 1..(i - 1) : quote[j]}) % 2 = 0]

\* s without the octets that mask marks
Without(s, mask) ==
    LET kept == {i \in DOMAIN s : ~mask[i]}
    IN  [k \in 1..Cardinality(kept) |->
            s[CHOOSE i \in kept :
                  Cardinality({j \in kept : j <= i}) = k]]

\* the tokens of s: s without the whitespace outside its strings
Tokens(s) == Without(s, LayoutMask(s))

\* C32: Print changes only the whitespace between tokens: a text that Print
\* returns has the tokens of the text it was given, each once, unmodified
\* and in the same order.
PrintKeepsTokens ==
    pc = "Print" /\ ~Threw(formatter) =>
        Tokens(formatter.ret) = Tokens(content)

\* C33: the Formatter accepts what the Parser accepts: Print returns a text
\* for every text for which Parse returned a value.
PrintAcceptsParsed ==
    pc = "PrintParsed" => ~Threw(formatter)

\* a text that is one token made of the characters numbers are written with,
\* beginning with '-' or a digit
NumberToken(s) ==
    /\ s # <<>>
    /\ s[1] = Ord["-"] \/ IsDigit(s[1])
    /\ \A i \in DOMAIN s :
           \/ IsDigit(s[i])
           \/ s[i] \in {Ord["-"], Ord["+"], Ord["."], Ord["e"], Ord["E"]}

\* C34: a number token is lexed exactly when it follows the RFC 8259 number
\* grammar (it may still fail to convert); any other token that begins with
\* '-' or a digit makes Parse throw.
NumberGrammarExact ==
    pc = "Parse" /\ NumberToken(content) =>
        IF RFCNumber(content, 1) = Len(content) + 1
        THEN Threw(parser) =>
                 /\ Positional(parser.err)
                 /\ parser.err[6] \in {"Failed converting number: stoll",
                                       "Failed converting number: stod"}
        ELSE /\ Threw(parser)
             /\ Positional(parser.err)

\* the character each two-character escape of RFC 8259 denotes
Denotes(c) ==
    CASE c = Ord["b"] -> 8
      [] c = Ord["f"] -> 12
      [] c = Ord["n"] -> 10
      [] c = Ord["r"] -> 13
      [] c = Ord["t"] -> 9
      [] OTHER -> c

SimpleEscapes ==
    {Ord["\""], Ord["\\"], Ord["/"], Ord["b"], Ord["f"], Ord["n"], Ord["r"],
     Ord["t"]}

\* C35: a String of one escape is parsed to the one character the escape
\* denotes when the escaped character is one of " \ / b f n r t, and makes
\* Parse throw for any other escaped character (\u apart).
EscapesDecoded ==
    pc = "Parse" /\ doc.kind = "escape" =>
        IF doc.char \in SimpleEscapes
        THEN /\ ~Threw(parser)
             /\ parser.ret = JSONString(<<Denotes(doc.char)>>)
        ELSE /\ Threw(parser)
             /\ parser.ret = NoValue

\* the octet at i of s is between the quotation marks of a string
InString(s, i) ==
    /\ ~IsStringQuote(s, i)
    /\ Cardinality({j \in 1..(i - 1) : IsStringQuote(s, j)}) % 2 = 1

RawControl(s) == \E i \in DOMAIN s : s[i] < 32 /\ InString(s, i)

\* C36 as stated: every raw octet below 0x20 inside a string makes Parse
\* throw "Illegal control character in string".
ControlCharacterAlways ==
    pc = "Parse" /\ doc.kind = "control" =>
        /\ Positional(parser.err)
        /\ parser.err[6] = "Illegal control character in string"

\* C36: Parse returns no value for a text with a raw octet below 0x20 inside
\* a string; it throws "Illegal control character in string" at that octet
\* when the octet is met by the string loop (in a plain run or right after a
\* backslash, in a value or a key), and the error of the \u escape when the
\* octet stands among the look-ahead of a \u escape.
ControlCharacterRejected ==
    pc = "Parse" =>
        /\ ~Threw(parser) => ~RawControl(content)
        /\ doc.kind = "control" =>
               /\ Threw(parser) /\ parser.ret = NoValue
               /\ Positional(parser.err)
               /\ parser.err[6] =
                      CASE doc.place \in {"hex", "lowhex"} ->
                               "Invalid hex digit"
                        [] doc.place = "pair" ->
                               "Expected low Unicode surrogate, but did not find one"
                        [] OTHER -> "Illegal control character in string"

ControlCharacterRejectedWitness ==
    /\ pc = "Parse"
    /\ doc.kind = "control" /\ doc.place = "escaped" /\ doc.byte = 10
    /\ content = <<34, 92, 10, 34>>
    /\ parser.err = ParsingErrorString(0, 2,
                                       "Illegal control character in string")

\* the Number that a call returned, alone or as the element of an Array
Element(v) == IF v.type = "Array" THEN v.items[1] ELSE v

\* C37: a number token whose value does not fit the type its spelling
\* selects (long long without fraction and exponent, double with one) makes
\* Parse throw "Failed converting number" and return nothing; a token that
\* fits is stored in that type, never in the other.
OverflowRejected ==
    pc = "Parse" /\ doc.kind = "range" =>
        IF doc.fits
        THEN /\ ~Threw(parser)
             /\ Element(parser.ret).type = "Number"
             /\ Element(parser.ret).isfloat = doc.float
             /\ Element(parser.ret).fp = "finite"
        ELSE /\ Threw(parser) /\ parser.ret = NoValue
             /\ Positional(parser.err)
             /\ parser.err[6] = IF doc.float
                                THEN "Failed converting number: stod"
                                ELSE "Failed converting number: stoll"

OverflowRejectedWitness ==
    /\ pc = "Parse"
    /\ doc.kind = "range" /\ ~doc.fits /\ ~doc.float /\ doc.wrapped
    /\ content = T(<<"[", "-", "9", "2", "2", "3", "3", "7", "2", "0", "3", "6", "8", "5", "4", "7", "7", "5", "8", "0", "9", "]">>)
    /\ parser.err = ParsingErrorString(0, 21,
                                       "Failed converting number: stoll")

\* the code point that the octets b are the UTF-8 encoding of (RFC 3629,
\* section 3), -1 when they are not the encoding of one BMP code point
ScalarOf(b) ==
    CASE Len(b) = 1 /\ b[1] <= 127 -> b[1]
      [] Len(b) = 2 /\ b[1] \in 192..223 /\ b[2] \in 128..191 ->
           (b[1] - 192) * 64 + (b[2] - 128)
      [] Len(b) = 3 /\ b[1] \in 224..239 /\ b[2] \in 128..191
                    /\ b[3] \in 128..191 ->
           ((b[1] - 224) * 64 + (b[2] - 128)) * 64 + (b[3] - 128)
      [] OTHER -> 0 - 1

EncodedLength(cp) == IF cp <= 127 THEN 1 ELSE IF cp <= 2047 THEN 2 ELSE 3

\* str is the encodings of the code units, one after another, each of the
\* length its range requires
RECURSIVE Encodes(_, _)
Encodes(str, units) ==
    IF units = <<>> THEN str = <<>>
    ELSE /\ Len(str) >= EncodedLength(Head(units).value)
         /\ ScalarOf(SubSeq(str, 1, EncodedLength(Head(units).value)))
                = Head(units).value
         /\ Encodes(SubSeq(str, EncodedLength(Head(units).value) + 1,
                           Len(str)),
                    Tail(units))

NoSurrogates(units) ==
    \A i \in DOMAIN units :
        ~IsHighSurrogate(units[i].value) /\ ~IsLowSurrogate(units[i].value)

\* C38: a String written as \u escapes of non-surrogate code units parses
\* to the UTF-8 encodings of those code points: one octet up to 0x7F, two up
\* to 0x7FF, three up to 0xFFFF.
BMPEscapesEncoded ==
    pc = "Parse" /\ doc.kind = "units" /\ NoSurrogates(doc.units) =>
        /\ ~Threw(parser)
        /\ parser.ret.type = "String"
        /\ Encodes(parser.ret.str, doc.units)

\* the first code point of three octets after the last of two
BMPEscapesEncodedWitness ==
    /\ pc = "Parse"
    /\ doc.kind = "units"
    /\ Len(doc.units) = 2
    /\ doc.units[1].value = 2047 /\ doc.units[2].value = 2048
    /\ parser.ret = JSONString(<<223, 191, 224, 160, 128>>)

\* the read position of an instance is inside its text or at its end
InBuffer(self) == self.p \in 1..(Len(self.content) + 1)

\* texts that end inside a look-ahead of several octets
CutShort ==
    {T(<<"t", "r", "u">>), T(<<"[", "n", "u", "l">>),
     T(<<"[", "\"", "\\", "u", "0", "0">>),
     T(<<"\"", "\\", "u", "d", "8", "3", "d", "\\", "u", "0", "0">>)}

LookAheadErrors ==
    {"Unknown JSON literal", "Insufficient input following \\u sequence",
     "Insufficient input following high Unicode surrogate"}

\* C39: the read position of a Parser stays between the start and the end of
\* the text (a read outside the text has no value in this model), it never
\* decreases from one step of a call to the next, and a text that ends
\* inside the look-ahead of a literal or of a \u escape is refused by the
\* remaining-length check.
CursorInBounds ==
    /\ [](InBuffer(parser) /\ InBuffer(second))
    /\ [][/\ parser'.p >= parser.p
          /\ second'.p >= second.p]_vars
    /\ [](pc.parser = "done" /\ doc.a \in CutShort =>
              /\ Threw(parser)
              /\ Positional(parser.err)
              /\ parser.err[6] \in LookAheadErrors)

CursorInBoundsWitness ==
    /\ pc.parser = "done"
    /\ doc.a = T(<<"\"", "\\", "u", "d", "8", "3", "d", "\\", "u", "0", "0">>)
    /\ parser.p = 8
    /\ parser.err = ParsingErrorString(0, 7,
           "Insufficient input following high Unicode surrogate")

\* the number of elements or members a container holds
Size(v) ==
    IF v.type = "Array" THEN Len(v.items)
    ELSE IF v.type = "Object" THEN Cardinality(DOMAIN v.members)
    ELSE 0

\* the frames of an instance all point at containers that exist
FramesValid(self) ==
    \A i \in DOMAIN self.composite_context :
        ~self.composite_context[i].dangling

\* an iteration from self to next leaves alone every container that a frame
\* below the top one points at
LowerFramesUntouched(self, next) ==
    \A i \in 1..(Len(self.composite_context) - 1) :
        /\ i \in DOMAIN next.composite_context
        /\ next.composite_context[i] = self.composite_context[i]
        /\ Size(GetAt(next.root, self.composite_context[i].path))
               = Size(GetAt(self.root, self.composite_context[i].path))

\* on instances making their first call, every frame points at a container
\* of the value being built and an iteration of the driving loop changes
\* only the container of the top frame
FirstCallReferences ==
    /\ [](/\ pc.parser = "loop" => FramesValid(parser)
          /\ pc.second = "loop" => FramesValid(second)
          /\ pc.formatter = "loop" => FramesValid(formatter))
    /\ [][/\ pc.parser = "loop" /\ pc'.parser = "loop" /\ ~Threw(parser')
              => LowerFramesUntouched(parser, parser')
          /\ pc.second = "loop" /\ pc'.second = "loop" /\ ~Threw(second')
              => LowerFramesUntouched(second, second')]_vars

\* C40: every frame on the stack of an instance points at a container that
\* exists.
FrameReferencesValid ==
    FramesValid(parser) /\ FramesValid(formatter)

====
